---- MODULE Spec2Model ----
(***************************************************************************)
(* A model of the column-scan operators and the ingestion readers of the   *)
(* repository:                                                             *)
(*   - OrderedMergeJoin      (src/src/physical/columns/ordered_merge_join) *)
(*   - ColumnScanEqualColumn (nemo-physical/.../columnscan_equal_column)   *)
(*   - RDFTriplesReader      (nemo/src/io/formats/rdf_triples.rs)          *)
(*   - csv read              (src/src/io/csv.rs)                           *)
(* Each component has its own specification (SpecOMJ, SpecEq, SpecRdf,     *)
(* SpecCsv); the variables of the other components stay at their initial   *)
(* values.                                                                 *)
(***************************************************************************)
EXTENDS Integers, Sequences, FiniteSets, TLC

\* ------------------------------------------------------------------------
\* Bounds of the model
\* ------------------------------------------------------------------------
\* Column values are 1..MaxVal.
MaxVal == 3
\* An OrderedMergeJoin has 1..MaxScans sub-scans.
MaxScans == 3
\* The RDF reader is given at most MaxTriples triples (parse steps).
MaxTriples == 4
\* the most items (triples or malformed stretches) of a resource fixed
\* before the load
MaxFile == 2
\* the most parts of a resource name
MaxName == 3
\* the most atoms of a rule's head, and the most literals of its body
MaxLits == 2
\* the most terms of the atom of a literal that is negated
MaxTerms == 2
\* the largest arity declared for a data source, and the most builder
\* proxies and logical types of an RDF reader
MaxSourceArity == 4
\* the most characters of the projection clause of a SPARQL source
MaxProjection == 4
\* the most directives a parser parses with success
MaxDirectives == 3
\* csv read is given 1..MaxCols declared columns and at most MaxRows records.
MaxCols == 2
MaxRows == 2
\* A column storage is built from at most MaxLen values.
MaxLen == 5
\* A stored trie has 1..MaxArity layers, values 1..TrieMaxVal and at most
\* MaxTuples tuples.
MaxArity == 2
TrieMaxVal == 2
MaxTuples == 2
\* The largest value of the columns under the step-by-step join.
LoopMaxVal == 2

Values == 1..MaxVal

\* ------------------------------------------------------------------------
\* Option<T>
\* ------------------------------------------------------------------------
None == << >>
Some(v) == << v >>
Unwrap(o) == o[1]

\* F applied to the value of v (v is evaluated once, whatever F does with
\* its argument).
Apply(F(_), v) == CHOOSE y \in { F(x) : x \in {v} } : TRUE

\* ------------------------------------------------------------------------
\* Sorted columns and storage-backed scans (spec section 4.2)
\* ------------------------------------------------------------------------
RECURSIVE SetToSeq(_)
\* The strictly ascending sequence of the elements of S.
SetToSeq(S) ==
    IF S = {} THEN << >>
    ELSE LET m == CHOOSE x \in S : \A y \in S : x <= y
         IN  << m >> \o SetToSeq(S \ {m})

\* Every strictly ascending column over Values.
Columns == { SetToSeq(S) : S \in SUBSET Values }

SeqRange(s) == { s[i] : i \in 1..Len(s) }

MinOf(S) == CHOOSE x \in S : \A y \in S : x <= y

\* A storage scan is [col, pos]: pos = 0 before the first value,
\* 1..Len(col) at a value, Len(col)+1 after exhaustion.
FreshScan(col) == [col |-> col, pos |-> 0]

ScanCurrent(sc) ==
    IF sc.pos \in 1..Len(sc.col) THEN Some(sc.col[sc.pos]) ELSE None

\* next(): move one position forward (staying exhausted once exhausted).
ScanNext(sc) ==
    IF sc.pos <= Len(sc.col) THEN [sc EXCEPT !.pos = sc.pos + 1] ELSE sc

\* seek(t): move to the first value >= t at or after the current position.
ScanSeek(sc, t) ==
    LET start == IF sc.pos = 0 THEN 1 ELSE sc.pos
        cand  == { i \in start..Len(sc.col) : sc.col[i] >= t }
    IN  [sc EXCEPT !.pos = IF cand = {} THEN Len(sc.col) + 1 ELSE MinOf(cand)]

\* ------------------------------------------------------------------------
\* State
\* ------------------------------------------------------------------------
VARIABLES
    \* OrderedMergeJoin
    column_scans,   \* the sub-scans, a sequence of storage scans
    active_scan,    \* 0-based index of the active sub-scan
    active_max,     \* Option<T>
    current,        \* Option<T>
    omj_op,         \* the last call: "none", "next", "seek"
    omj_arg,        \* the target of the last seek (0 otherwise)
    omj_ret,        \* what the last call returned
    omj_hist,       \* "fresh", "nexts" (only next so far), "seeks"
                    \* (only seeks with non-decreasing targets so far), "other"
    omj_matched,    \* the loop's matched_scans when the last call emitted (else 0)
    omj_out,        \* the values returned by next() while omj_hist = "nexts"
    \* ColumnScanEqualColumn
    reference_scan, \* a storage scan, moved only by its owner
    value_scan,     \* a storage scan, the sub scan
    current_value,  \* Option<T>
    eq_op,          \* the last step: "none", "next", "seek", "reset", "ref"
    eq_arg,         \* the target of the last seek (0 otherwise)
    eq_ret,         \* what the last next()/seek() returned
    eq_pre,         \* the scan's state when the last next()/seek() was called
    eq_calls,       \* calls of the equality scan since construction (capped)
    eq_nexts,       \* next() calls in the present positioning (capped)
    eq_hist,        \* "fresh", "seeks" (only seeks, targets not decreasing),
                    \* "reset" (just reset), "reset_next" (next() right after
                    \* reset()), "other"
    \* RDFTriplesReader::read_with_buf_reader
    builders,       \* the three column builders, each a sequence of cells
    triples,        \* the counter of committed triples
    rdf_pc,         \* "reading" (in the while loop), "done" (returned)
    rdf_ret,        \* "none" until the function returns, then "Ok" or "Err"
    rdf_read,       \* parse steps taken
    rdf_last,       \* the outcome of the last parse step
    rdf_committed,  \* the steps whose triple callback returned Ok, in order
    rdf_forgets,    \* forget() calls of the last parse step, per builder
    rdf_input,      \* what the parser will find in the resource, when the
                    \* resource is fixed before the load (SpecRdfFile)
    rdf_resource,   \* the resource name of the reader, a sequence of name
                    \* parts (<< >> where read_with_buf_reader is studied alone)
    rdf_parser,     \* the parser read_into_builder_proxies made: "Turtle",
                    \* "RdfXml", "NTriples" ("none": made by another caller)
    \* csv read
    datatypes,      \* the declared column datatypes, Option<DataTypeName>
    result,         \* the result columns, one per declared datatype
    dictionary,     \* the string dictionary, a sequence of distinct strings
    csv_pc,         \* "reading", "done" (returned), "panicked"
    csv_ret,        \* "none" until the function returns, then "Ok" or "Err"
    csv_rows,       \* records taken from the reader
    csv_last,       \* the last record processed (<< >> if none or unreadable)
    csv_pre,        \* the result columns before the last record
    csv_all_parse,  \* every cell of every record so far parsed
    csv_hist,       \* the records so far, while csv_all_parse (else << >>)
    \* a column storage and its scan
    store_input,    \* the sorted values the column was built from
    store_column,   \* the column storage: dense data or RLE runs
    store_scan,     \* the state of the scan over store_column
    store_op,       \* the last call: "none", "next", "seek"
    store_arg,      \* the largest seek target so far (0 if none)
    store_ret,      \* what the last call returned
    store_pre,      \* the scan's position before the last call
    store_hist,     \* "fresh", "nexts" (only next so far), "seeks", "other"
    store_out,      \* the values returned by next() while only next is called
    \* a stored trie, its trie scan and materialization
    trie_tuples,    \* the relation the trie stores, a set of tuples
    trie,           \* the stored trie: arity, columns, interval maps
    trie_scan,      \* the trie scan: active layer and one scan per layer
    trie_op,        \* the last call: "none", "next", "seek", "down", "up"
    trie_pre,       \* trie_scan when the last down()/up() was called
    mat_pc,         \* materialization: "idle", "walking", "done"
    mat_builders,   \* materialization: one column builder per layer
    \* ColumnScanPrune and the shared state of the prune trie scan
    scan_kind,      \* the trie scan the walk drains: "materialized", "prune"
    prune_state,    \* the shared state of the prune trie scan
    prune_op,       \* the last step: "none", "next", "down", "up", "current"
    prune_obs,      \* the last current(): << [index, ret, state before] >>
    scan_drain,     \* what the walk over the input trie scan alone pushes
    \* reset(), pos() and narrow() of the derived scans
    panicked,       \* a call reached unimplemented!(): the thread unwinds
    call_pre,       \* the scan's state and last result before the last reset/pos/narrow
    \* OrderedMergeJoin over OrderedMergeJoin sub-scans
    nest_join,      \* an OrderedMergeJoin whose sub-scans are OrderedMergeJoins
    nest_op,        \* the last call on it: "none", "next"
    nest_ret,       \* what the last next() returned
    nest_out,       \* the values returned by next() so far
    \* OrderedMergeJoin::next_loop, one iteration at a time
    loop_join,      \* an OrderedMergeJoin whose calls are followed step by step
    loop_pc,        \* "idle" (between calls), "loop" (inside next_loop)
    loop_matched,   \* next_loop's local matched_scans
    loop_ret,       \* what the last call returned
    loop_last,      \* the last step: "none", "call", "match", "mismatch", "reset"
    loop_call,      \* the call that is running or has returned last: "none", "next", "seek"
    loop_nones,     \* 0; 1: the last next() was the first to return None;
                    \* 2: further next() calls have returned since (only next() since)
    \* the logical data model (Rule, Literal, DataSourceDeclaration) and RuleParser
    rule_head,      \* the head atoms given to Rule::new_validated
    rule_body,      \* the body literals given to Rule::new_validated
    rule_ret,       \* Option of what Rule::new_validated returned
    lit_input,      \* a literal
    lit_cur,        \* the literal after lit_negs negations of lit_input
    lit_negs,       \* negations applied so far
    src_source,     \* a DataSource: its kind and, for a query, its projection
    src_arity,      \* the arity declared for the source's predicate
    src_ret,        \* Option of what DataSourceDeclaration::new_validated returned
    rdr_proxies,    \* the number of builder proxies handed to the RDF reader
    rdr_types,      \* the number of logical types the RDF reader was made with
    rdr_pc,         \* the RDF reader: "idle", "reading", "panicked"
    names,          \* RuleParser: the dictionary of term names
    base,           \* RuleParser: Option of the base IRI
    prefixes,       \* RuleParser: the map from prefixes to IRIs, a set of
                    \* << prefix, IRI >> with one pair per prefix
    parser_parsed,  \* the directives parsed with success, in order
    parser_last,    \* the last parser call: "none", "ok", "failed", "intern",
                    \* "intern_again" (of a string interned before)
    parser_handles  \* every << string, handle >> intern_term has returned

omj_vars == << column_scans, active_scan, active_max, current,
               omj_op, omj_arg, omj_ret, omj_hist, omj_out, omj_matched >>

eq_vars == << reference_scan, value_scan, current_value,
              eq_op, eq_arg, eq_ret, eq_pre, eq_calls, eq_nexts, eq_hist >>

rdf_vars == << builders, triples, rdf_pc, rdf_ret, rdf_read, rdf_last,
               rdf_committed, rdf_forgets, rdf_input,
               rdf_resource, rdf_parser >>

csv_vars == << datatypes, result, dictionary, csv_pc, csv_ret, csv_rows,
               csv_last, csv_pre, csv_all_parse, csv_hist >>

store_vars == << store_input, store_column, store_scan, store_op, store_arg, store_ret, store_pre, store_hist, store_out >>

trie_vars == << trie_tuples, trie, trie_scan, trie_op, trie_pre, mat_pc, mat_builders >>

prune_vars == << scan_kind, prune_state, prune_op, prune_obs, scan_drain >>

call_vars == << panicked, call_pre >>

nest_vars == << nest_join, nest_op, nest_ret, nest_out >>

loop_vars == << loop_join, loop_pc, loop_matched, loop_ret, loop_last,
                loop_call, loop_nones >>

rule_vars == << rule_head, rule_body, rule_ret >>

lit_vars == << lit_input, lit_cur, lit_negs >>

source_vars == << src_source, src_arity, src_ret, rdr_proxies, rdr_types, rdr_pc >>

parser_vars == << names, base, prefixes, parser_parsed, parser_last, parser_handles >>

logic_vars == << rule_vars, lit_vars, source_vars, parser_vars >>

vars == << omj_vars, eq_vars, rdf_vars, csv_vars,
          store_vars,
          trie_vars,
          prune_vars,
          call_vars,
          nest_vars,
          loop_vars,
          logic_vars >>

\* ------------------------------------------------------------------------
\* Components at rest
\* ------------------------------------------------------------------------
\* The join while another component is the one under study.
OmjIdle ==
    /\ column_scans = << >>
    /\ active_scan = 0
    /\ active_max = None
    /\ current = None
    /\ omj_op = "none"
    /\ omj_arg = 0
    /\ omj_ret = None
    /\ omj_hist = "fresh"
    /\ omj_out = << >>
    /\ omj_matched = 0

\* The equality scan while another component is the one under study.
EqIdle ==
    /\ reference_scan = FreshScan(<< >>)
    /\ value_scan = FreshScan(<< >>)
    /\ current_value = None
    /\ eq_op = "none"
    /\ eq_arg = 0
    /\ eq_ret = None
    /\ eq_pre = [reference_scan |-> FreshScan(<< >>),
                 value_scan |-> FreshScan(<< >>), current_value |-> None]
    /\ eq_calls = 0
    /\ eq_nexts = 0
    /\ eq_hist = "fresh"

\* The RDF reader before read_with_buf_reader has processed anything.
RdfIdle ==
    /\ builders = << << >>, << >>, << >> >>
    /\ triples = 0
    /\ rdf_pc = "reading"
    /\ rdf_ret = "none"
    /\ rdf_read = 0
    /\ rdf_last = "none"
    /\ rdf_committed = << >>
    /\ rdf_forgets = << 0, 0, 0 >>
    /\ rdf_input = << >>
    /\ rdf_resource = << >>
    /\ rdf_parser = "none"

\* csv read while another component is the one under study.
CsvIdle ==
    /\ datatypes = << >>
    /\ result = << >>
    /\ dictionary = << >>
    /\ csv_pc = "reading"
    /\ csv_ret = "none"
    /\ csv_rows = 0
    /\ csv_last = << >>
    /\ csv_pre = << >>
    /\ csv_all_parse = TRUE
    /\ csv_hist = << >>


\* The storage scan while another component is the one under study.
StoreIdle ==
    /\ store_input = << >>
    /\ store_column = << >>
    /\ store_scan = << >>
    /\ store_op = "none"
    /\ store_arg = 0
    /\ store_ret = None
    /\ store_pre = -1
    /\ store_hist = "fresh"
    /\ store_out = << >>


\* The trie scan while another component is the one under study.
TrieIdle ==
    /\ trie_tuples = {}
    /\ trie = << >>
    /\ trie_scan = << >>
    /\ trie_op = "none"
    /\ trie_pre = << >>
    /\ mat_pc = "idle"
    /\ mat_builders = << >>


\* The prune trie scan while another component is the one under study.
PruneIdle ==
    /\ scan_kind = "materialized"
    /\ prune_state = [highest_peeked_layer |-> None, external_current_layer |-> 0]
    /\ prune_op = "none"
    /\ prune_obs = << >>
    /\ scan_drain = << >>


\* No reset(), pos() or narrow() has been called.
CallIdle ==
    /\ panicked = FALSE
    /\ call_pre = << >>


\* The join of joins while another component is the one under study.
NestIdle ==
    /\ nest_join = << >>
    /\ nest_op = "none"
    /\ nest_ret = None
    /\ nest_out = << >>


\* The step-by-step join while another component is the one under study.
LoopIdle ==
    /\ loop_join = << >>
    /\ loop_pc = "idle"
    /\ loop_matched = 0
    /\ loop_ret = None
    /\ loop_last = "none"
    /\ loop_call = "none"
    /\ loop_nones = 0


\* The logical data model and the rule parser while another component is
\* the one under study.
RuleIdle ==
    /\ rule_head = << >>
    /\ rule_body = << >>
    /\ rule_ret = << >>

LitIdle ==
    /\ lit_input = << >>
    /\ lit_cur = << >>
    /\ lit_negs = 0

SourceIdle ==
    /\ src_source = << >>
    /\ src_arity = 0
    /\ src_ret = << >>
    /\ rdr_proxies = 0
    /\ rdr_types = 0
    /\ rdr_pc = "idle"

ParserIdle ==
    /\ names = << >>
    /\ base = << >>
    /\ prefixes = {}
    /\ parser_parsed = << >>
    /\ parser_last = "none"
    /\ parser_handles = {}

LogicIdle == RuleIdle /\ LitIdle /\ SourceIdle /\ ParserIdle

\* ------------------------------------------------------------------------
\* OrderedMergeJoin
\* ------------------------------------------------------------------------
OmjState == [column_scans |-> column_scans, active_scan |-> active_scan,
             active_max |-> active_max, current |-> current]

\* OrderedMergeJoin::new
OmjNew(scans) == [column_scans |-> scans, active_scan |-> 0,
                  active_max |-> None, current |-> None]

\* A mis-count of the matched scans: emits one agreement early.
AllMatchedEarly(matched_scans, n) == matched_scans >= n - 1

\* matched_scans == self.column_scans.len()
AllMatched(matched_scans, n) == matched_scans = n

RECURSIVE next_loop(_, _)
\* The matching loop; matched_scans is the loop's local counter.
\* Returns [st |-> the join's state, ret |-> the value returned,
\* matched |-> matched_scans at the return].
next_loop(s, matched_scans) ==
    LET n      == Len(s.column_scans)
        a      == (s.active_scan + 1) % n
        sought == ScanSeek(s.column_scans[a + 1], Unwrap(s.active_max))
        s1     == [s EXCEPT !.active_scan = a,
                            !.column_scans = [@ EXCEPT ![a + 1] = sought]]
    IN  IF s.active_max = ScanCurrent(sought)
        THEN IF AllMatched(matched_scans + 1, n)
             THEN [st  |-> [s1 EXCEPT !.current = s.active_max],
                   ret |-> s.active_max, matched |-> matched_scans + 1]
             ELSE next_loop(s1, matched_scans + 1)
        ELSE LET s2 == [s1 EXCEPT !.active_max = ScanCurrent(sought)]
             IN  IF s2.active_max = None
                 THEN [st |-> [s2 EXCEPT !.current = None], ret |-> None,
                       matched |-> 1]
                 ELSE next_loop(s2, 1)

\* A next() that returns the active scan's next value without matching it
\* against the other scans.
omj_next_no_loop(s) ==
    LET a   == s.active_scan
        adv == ScanNext(s.column_scans[a + 1])
    IN  [st  |-> [s EXCEPT !.column_scans = [@ EXCEPT ![a + 1] = adv],
                           !.active_max = ScanCurrent(adv),
                           !.current = ScanCurrent(adv)],
         ret |-> ScanCurrent(adv)]

\* Iterator::next
omj_next(s) ==
    LET a   == s.active_scan
        adv == ScanNext(s.column_scans[a + 1])
        s1  == [s EXCEPT !.column_scans = [@ EXCEPT ![a + 1] = adv],
                         !.active_max = ScanCurrent(adv)]
    IN  IF s1.active_max = None
        THEN [st |-> [s1 EXCEPT !.current = None], ret |-> None]
        ELSE IF Len(s.column_scans) > 1
             THEN next_loop(s1, 1)
             ELSE [st |-> s1, ret |-> s1.active_max]

\* A seek that returns the active scan's value without the matching loop.
omj_seek_no_loop(s, value) ==
    LET a      == s.active_scan
        sought == ScanSeek(s.column_scans[a + 1], value)
        s0     == [s EXCEPT !.column_scans = [@ EXCEPT ![a + 1] = sought],
                            !.active_max = ScanCurrent(sought),
                            !.current = ScanCurrent(sought)]
    IN  [st |-> s0, ret |-> ScanCurrent(sought)]

\* ColumnScan::seek
omj_seek(s, value) ==
    LET a      == s.active_scan
        sought == ScanSeek(s.column_scans[a + 1], value)
        seek_result == ScanCurrent(sought)
        s0     == [s EXCEPT !.column_scans = [@ EXCEPT ![a + 1] = sought]]
    IN  IF seek_result = None
        THEN [st |-> [s0 EXCEPT !.current = None], ret |-> None]
        ELSE LET s1 == [s0 EXCEPT !.active_max = seek_result]
             IN  IF Len(s.column_scans) > 1
                 THEN next_loop(s1, 1)
                 ELSE [st |-> s1, ret |-> s1.active_max]

\* ColumnScan::current
omj_current(s) == s.current

OmjInit ==
    /\ EqIdle
    /\ RdfIdle
    /\ CsvIdle
    /\ StoreIdle
    /\ TrieIdle
    /\ PruneIdle
    /\ CallIdle
    /\ NestIdle
    /\ LoopIdle
    /\ LogicIdle
    /\ \E n \in 1..MaxScans :
         \E cols \in [1..n -> Columns] :
            LET s == OmjNew([i \in 1..n |-> FreshScan(cols[i])])
            IN  /\ column_scans = s.column_scans
                /\ active_scan = s.active_scan
                /\ active_max = s.active_max
                /\ current = s.current
    /\ omj_op = "none"
    /\ omj_arg = 0
    /\ omj_ret = None
    /\ omj_hist = "fresh"
    /\ omj_out = << >>
    /\ omj_matched = 0

OmjApply(r) ==
    /\ column_scans' = r.st.column_scans
    /\ active_scan' = r.st.active_scan
    /\ active_max' = r.st.active_max
    /\ current' = r.st.current
    /\ omj_ret' = r.ret
    /\ omj_matched' = IF r.ret # None /\ "matched" \in DOMAIN r
                      THEN r.matched ELSE 0

OmjNext ==
    LET r == omj_next(OmjState)
    IN  /\ OmjApply(r)
        /\ omj_op' = "next"
        /\ omj_arg' = 0
        /\ omj_hist' = IF omj_hist \in {"fresh", "nexts"} THEN "nexts" ELSE "other"
        /\ omj_out' = IF omj_hist \in {"fresh", "nexts"}
                      THEN (IF r.ret = None THEN omj_out
                            ELSE Append(omj_out, Unwrap(r.ret)))
                      ELSE << >>
        /\ UNCHANGED << eq_vars, rdf_vars, csv_vars, store_vars, trie_vars, prune_vars, call_vars, nest_vars, loop_vars, logic_vars >>

OmjSeek ==
    \E v \in Values :
        LET r == omj_seek(OmjState, v)
        IN  /\ OmjApply(r)
            /\ omj_op' = "seek"
            /\ omj_arg' = v
            /\ omj_hist' = IF omj_hist = "fresh"
                              \/ (omj_hist = "seeks" /\ omj_arg <= v)
                           THEN "seeks" ELSE "other"
            /\ omj_out' = << >>
            /\ UNCHANGED << eq_vars, rdf_vars, csv_vars, store_vars, trie_vars, prune_vars, call_vars, nest_vars, loop_vars, logic_vars >>

OmjStep == OmjNext \/ OmjSeek

SpecOMJ == OmjInit /\ [][OmjStep]_vars

\* ------------------------------------------------------------------------
\* ColumnScanEqualColumn
\* ------------------------------------------------------------------------
EqState == [reference_scan |-> reference_scan, value_scan |-> value_scan,
            current_value |-> current_value]

\* ColumnScanEqualColumn::new
EqNew(ref, val) == [reference_scan |-> ref, value_scan |-> val,
                    current_value |-> None]

\* A next() that takes whatever the value scan's seek lands on.
eq_next_unchecked(s) ==
    IF s.current_value # None
    THEN [st |-> [s EXCEPT !.current_value = None], ret |-> None]
    ELSE LET reference_value == ScanCurrent(s.reference_scan)
         IN  IF reference_value = None
             THEN [st |-> s, ret |-> None]
             ELSE LET sought == ScanSeek(s.value_scan, Unwrap(reference_value))
                  IN  [st  |-> [s EXCEPT !.value_scan = sought,
                                         !.current_value = ScanCurrent(sought)],
                       ret |-> ScanCurrent(sought)]

\* Iterator::next
\* Returns [st |-> the scan's state, ret |-> the value returned].
eq_next(s) ==
    IF s.current_value # None
    THEN [st |-> [s EXCEPT !.current_value = None], ret |-> None]
    ELSE LET reference_value == ScanCurrent(s.reference_scan)
         IN  IF reference_value = None
             THEN [st |-> s, ret |-> None]
             ELSE LET sought == ScanSeek(s.value_scan, Unwrap(reference_value))
                      next_value_opt == ScanCurrent(sought)
                      cv == IF next_value_opt # None
                            THEN (IF next_value_opt = reference_value
                                  THEN next_value_opt ELSE None)
                            ELSE None
                  IN  [st  |-> [s EXCEPT !.value_scan = sought,
                                         !.current_value = cv],
                       ret |-> cv]

\* A seek that ignores its target.
eq_seek_unguarded(s, value) == eq_next(s)

\* A seek that also rejects the reference's own value as a target.
eq_seek_strict(s, value) ==
    LET reference_value == ScanCurrent(s.reference_scan)
    IN  IF reference_value = None
        THEN [st |-> s, ret |-> None]
        ELSE IF value >= Unwrap(reference_value)
             THEN [st |-> [s EXCEPT !.current_value = None], ret |-> None]
             ELSE eq_next(s)

\* ColumnScan::seek
eq_seek(s, value) ==
    LET reference_value == ScanCurrent(s.reference_scan)
    IN  IF reference_value = None
        THEN [st |-> s, ret |-> None]
        ELSE IF value > Unwrap(reference_value)
             THEN [st |-> [s EXCEPT !.current_value = None], ret |-> None]
             ELSE eq_next(s)

\* ColumnScan::current
eq_current(s) == s.current_value

\* A reset() that keeps the current value.
eq_reset_keeping(s) == s

\* ColumnScan::reset
eq_reset(s) == [s EXCEPT !.current_value = None]

\* A storage scan over col at any position.
ScansOf(col) == { [col |-> col, pos |-> p] : p \in 0..(Len(col) + 1) }

Capped(n) == IF n >= 2 THEN 2 ELSE n + 1

\* A freshly constructed equality scan over a reference scan and a value
\* scan that their owner has positioned anywhere.
EqInit ==
    /\ OmjIdle
    /\ RdfIdle
    /\ CsvIdle
    /\ StoreIdle
    /\ TrieIdle
    /\ PruneIdle
    /\ CallIdle
    /\ NestIdle
    /\ LoopIdle
    /\ LogicIdle
    /\ \E rc \in Columns, vc \in Columns :
         \E ref \in ScansOf(rc), val \in ScansOf(vc) :
            LET s == EqNew(ref, val)
            IN  /\ reference_scan = s.reference_scan
                /\ value_scan = s.value_scan
                /\ current_value = s.current_value
                /\ eq_pre = s
    /\ eq_op = "none"
    /\ eq_arg = 0
    /\ eq_ret = None
    /\ eq_calls = 0
    /\ eq_nexts = 0
    /\ eq_hist = "fresh"

EqApply(r) ==
    /\ reference_scan' = r.st.reference_scan
    /\ value_scan' = r.st.value_scan
    /\ current_value' = r.st.current_value
    /\ eq_ret' = r.ret
    /\ eq_pre' = EqState
    /\ eq_calls' = Capped(eq_calls)

EqNext ==
    /\ EqApply(eq_next(EqState))
    /\ eq_op' = "next"
    /\ eq_arg' = 0
    /\ eq_nexts' = Capped(eq_nexts)
    /\ eq_hist' = IF eq_hist = "reset" THEN "reset_next" ELSE "other"
    /\ UNCHANGED << omj_vars, rdf_vars, csv_vars, store_vars, trie_vars, prune_vars, call_vars, nest_vars, loop_vars, logic_vars >>

EqSeek ==
    \E v \in Values :
        /\ EqApply(eq_seek(EqState, v))
        /\ eq_op' = "seek"
        /\ eq_arg' = v
        /\ eq_hist' = IF eq_hist = "fresh" \/ (eq_hist = "seeks" /\ eq_arg <= v)
                      THEN "seeks" ELSE "other"
        /\ UNCHANGED << eq_nexts, omj_vars, rdf_vars, csv_vars, store_vars, trie_vars, prune_vars, call_vars, nest_vars, loop_vars, logic_vars >>

EqReset ==
    /\ current_value' = eq_reset(EqState).current_value
    /\ eq_op' = "reset"
    /\ eq_arg' = 0
    /\ eq_calls' = Capped(eq_calls)
    /\ eq_nexts' = 0
    /\ eq_hist' = "reset"
    /\ UNCHANGED << reference_scan, value_scan, eq_ret, eq_pre, omj_vars, rdf_vars, csv_vars, store_vars, trie_vars, prune_vars, call_vars, nest_vars, loop_vars, logic_vars >>

\* The owner of the reference scan moves it forward (a new positioning).
RefAdvance ==
    /\ \/ reference_scan' = ScanNext(reference_scan)
       \/ \E v \in Values : reference_scan' = ScanSeek(reference_scan, v)
    /\ reference_scan' # reference_scan
    /\ eq_op' = "ref"
    /\ eq_arg' = 0
    /\ eq_nexts' = 0
    /\ eq_hist' = "other"
    /\ UNCHANGED << value_scan, current_value, eq_ret, eq_pre, eq_calls, omj_vars, rdf_vars, csv_vars, store_vars, trie_vars, prune_vars, call_vars, nest_vars, loop_vars, logic_vars >>

EqStep == EqNext \/ EqSeek \/ EqReset \/ RefAdvance

SpecEq == EqInit /\ [][EqStep]_vars

\* ------------------------------------------------------------------------
\* Column builders (spec section 4.5)
\* ------------------------------------------------------------------------
\* add: appends the cell; a failing add (the cell does not validate)
\* appends nothing.
BuilderAdd(b, cell, fails) == IF fails THEN b ELSE Append(b, cell)

\* forget: discards the last appended cell.
BuilderForget(b) == SubSeq(b, 1, Len(b) - 1)

\* ------------------------------------------------------------------------
\* RDFTriplesReader::read_with_buf_reader
\* ------------------------------------------------------------------------
\* What one parse step can hand to the triple callback: the kind of the
\* subject and of the object, and the builder (1..3) whose add fails
\* (0: none fails).
TripleInputs ==
    [subject : {"node", "star"},
     object  : {"node", "literal", "badliteral", "star"},
     fail    : 0..3]

\* TryFrom<Subject> for Term
SubjectOk(subject) == subject # "star"

\* TryFrom<rio_api::model::Term> for Term
ObjectOk(object) == object \in {"node", "literal"}

\* A callback whose rollback of a failing third add forgets builder 0 only.
on_triple_short_rollback(bs, n, t, cell) ==
    IF ~SubjectOk(t.subject) THEN [builders |-> bs, triples |-> n, res |-> "rdfstar",
          forgets |-> << 0, 0, 0 >>]
    ELSE IF ~ObjectOk(t.object)
    THEN [builders |-> bs, triples |-> n,
          res |-> IF t.object = "star" THEN "rdfstar" ELSE "literal",
          forgets |-> << 0, 0, 0 >>]
    ELSE LET b1 == [bs EXCEPT ![1] = BuilderAdd(@, cell, t.fail = 1)]
         IN  IF t.fail = 1 THEN [builders |-> b1, triples |-> n, res |-> "add1",
                                 forgets |-> << 0, 0, 0 >>]
             ELSE LET b2 == [b1 EXCEPT ![2] = BuilderAdd(@, cell, t.fail = 2)]
                  IN  IF t.fail = 2
                      THEN [builders |-> [b2 EXCEPT ![1] = BuilderForget(@)],
                            triples |-> n, res |-> "add2",
                            forgets |-> << 1, 0, 0 >>]
                      ELSE LET b3 == [b2 EXCEPT ![3] = BuilderAdd(@, cell, t.fail = 3)]
                           IN  IF t.fail = 3
                               THEN [builders |-> [b3 EXCEPT ![1] = BuilderForget(@)],
                                     triples |-> n, res |-> "add3",
                                     forgets |-> << 1, 0, 0 >>]
                               ELSE [builders |-> b3, triples |-> n + 1,
                                     res |-> "Ok", forgets |-> << 0, 0, 0 >>]

\* A callback whose rollback of a failing second add forgets builder 0 twice.
on_triple_forgets_twice(bs, n, t, cell) ==
    IF ~SubjectOk(t.subject) THEN [builders |-> bs, triples |-> n, res |-> "rdfstar",
          forgets |-> << 0, 0, 0 >>]
    ELSE IF ~ObjectOk(t.object)
    THEN [builders |-> bs, triples |-> n,
          res |-> IF t.object = "star" THEN "rdfstar" ELSE "literal",
          forgets |-> << 0, 0, 0 >>]
    ELSE LET b1 == [bs EXCEPT ![1] = BuilderAdd(@, cell, t.fail = 1)]
         IN  IF t.fail = 1 THEN [builders |-> b1, triples |-> n, res |-> "add1",
                                 forgets |-> << 0, 0, 0 >>]
             ELSE LET b2 == [b1 EXCEPT ![2] = BuilderAdd(@, cell, t.fail = 2)]
                  IN  IF t.fail = 2
                      THEN [builders |-> [b2 EXCEPT ![1] = BuilderForget(BuilderForget(@))],
                            triples |-> n, res |-> "add2",
                            forgets |-> << 2, 0, 0 >>]
                      ELSE LET b3 == [b2 EXCEPT ![3] = BuilderAdd(@, cell, t.fail = 3)]
                           IN  IF t.fail = 3
                               THEN [builders |-> [b3 EXCEPT ![1] = BuilderForget(@),
                                                             ![2] = BuilderForget(@)],
                                     triples |-> n, res |-> "add3",
                                     forgets |-> << 1, 1, 0 >>]
                               ELSE [builders |-> b3, triples |-> n + 1,
                                     res |-> "Ok", forgets |-> << 0, 0, 0 >>]

\* The on_triple closure: bs are the builders, n the triples counter, t the
\* triple, cell the value the triple's terms are appended as.
\* res is "Ok" or names the error returned.
on_triple(bs, n, t, cell) ==
    IF ~SubjectOk(t.subject) THEN [builders |-> bs, triples |-> n, res |-> "rdfstar",
          forgets |-> << 0, 0, 0 >>]
    ELSE IF ~ObjectOk(t.object)
    THEN [builders |-> bs, triples |-> n,
          res |-> IF t.object = "star" THEN "rdfstar" ELSE "literal",
          forgets |-> << 0, 0, 0 >>]
    ELSE LET b1 == [bs EXCEPT ![1] = BuilderAdd(@, cell, t.fail = 1)]
         IN  IF t.fail = 1 THEN [builders |-> b1, triples |-> n, res |-> "add1",
                                 forgets |-> << 0, 0, 0 >>]
             ELSE LET b2 == [b1 EXCEPT ![2] = BuilderAdd(@, cell, t.fail = 2)]
                  IN  IF t.fail = 2
                      THEN [builders |-> [b2 EXCEPT ![1] = BuilderForget(@)],
                            triples |-> n, res |-> "add2",
                            forgets |-> << 1, 0, 0 >>]
                      ELSE LET b3 == [b2 EXCEPT ![3] = BuilderAdd(@, cell, t.fail = 3)]
                           IN  IF t.fail = 3
                               THEN [builders |-> [b3 EXCEPT ![1] = BuilderForget(@),
                                                             ![2] = BuilderForget(@)],
                                     triples |-> n, res |-> "add3",
                                     forgets |-> << 1, 1, 0 >>]
                               ELSE [builders |-> b3, triples |-> n + 1,
                                     res |-> "Ok", forgets |-> << 0, 0, 0 >>]

RdfInit ==
    /\ OmjIdle
    /\ EqIdle
    /\ CsvIdle
    /\ StoreIdle
    /\ TrieIdle
    /\ PruneIdle
    /\ CallIdle
    /\ NestIdle
    /\ LoopIdle
    /\ LogicIdle
    /\ builders = << << >>, << >>, << >> >>
    /\ triples = 0
    /\ rdf_pc = "reading"
    /\ rdf_ret = "none"
    /\ rdf_read = 0
    /\ rdf_last = "none"
    /\ rdf_committed = << >>
    /\ rdf_forgets = << 0, 0, 0 >>
    /\ rdf_input = << >>
    /\ rdf_resource = << >>
    /\ rdf_parser = "none"

\* One iteration of the while loop in which the parser hands a triple to
\* the callback; an error of the callback is logged and dropped.
RdfParseTriple ==
    /\ rdf_pc = "reading"
    /\ rdf_read < MaxTriples
    /\ \E t \in TripleInputs :
         LET r == on_triple(builders, triples, t, rdf_read + 1)
         IN  /\ builders' = r.builders
             /\ triples' = r.triples
             /\ rdf_last' = IF r.res = "Ok" THEN "committed" ELSE r.res
             /\ rdf_committed' = IF r.res = "Ok"
                                 THEN Append(rdf_committed, rdf_read + 1)
                                 ELSE rdf_committed
             /\ rdf_forgets' = r.forgets
    /\ rdf_read' = rdf_read + 1
    /\ UNCHANGED << rdf_pc, rdf_ret, rdf_input, rdf_resource, rdf_parser, omj_vars, eq_vars, csv_vars, store_vars, trie_vars, prune_vars, call_vars, nest_vars, loop_vars, logic_vars >>

\* One iteration in which the parser itself reports an error (a malformed
\* triple): the callback is not called.
RdfParseError ==
    /\ rdf_pc = "reading"
    /\ rdf_read < MaxTriples
    /\ rdf_read' = rdf_read + 1
    /\ rdf_last' = "malformed"
    /\ rdf_forgets' = << 0, 0, 0 >>
    /\ UNCHANGED << builders, triples, rdf_pc, rdf_ret, rdf_committed, rdf_input,
                    rdf_resource, rdf_parser,
                    omj_vars, eq_vars, csv_vars, store_vars, trie_vars, prune_vars, call_vars, nest_vars, loop_vars, logic_vars >>

\* parser.is_end(): the loop ends and the function returns Ok(()).
RdfFinish ==
    /\ rdf_pc = "reading"
    /\ rdf_pc' = "done"
    /\ rdf_ret' = "Ok"
    /\ UNCHANGED << builders, triples, rdf_read, rdf_last, rdf_committed,
                    rdf_forgets, rdf_input, rdf_resource, rdf_parser, omj_vars, eq_vars, csv_vars, store_vars, trie_vars, prune_vars, call_vars, nest_vars, loop_vars, logic_vars >>

RdfStep == RdfParseTriple \/ RdfParseError \/ RdfFinish

SpecRdf == RdfInit /\ [][RdfStep]_vars

\* ------------------------------------------------------------------------
\* read_with_buf_reader over a resource fixed before the load
\* ------------------------------------------------------------------------
\* What the parser reports for a stretch of input that is no triple.
ParseErrorItem == [subject |-> "malformed", object |-> "malformed", fail |-> 0]

FileItems == TripleInputs \cup {ParseErrorItem}

\* A triple that the parser accepts and whose three terms the callback
\* accepts.
WellFormed(t) ==
    /\ t # ParseErrorItem
    /\ SubjectOk(t.subject)
    /\ ObjectOk(t.object)
    /\ t.fail = 0

RdfFileInit ==
    /\ OmjIdle
    /\ EqIdle
    /\ CsvIdle
    /\ StoreIdle
    /\ TrieIdle
    /\ PruneIdle
    /\ CallIdle
    /\ NestIdle
    /\ LoopIdle
    /\ LogicIdle
    /\ builders = << << >>, << >>, << >> >>
    /\ triples = 0
    /\ rdf_pc = "reading"
    /\ rdf_ret = "none"
    /\ rdf_read = 0
    /\ rdf_last = "none"
    /\ rdf_committed = << >>
    /\ rdf_forgets = << 0, 0, 0 >>
    /\ \E n \in 0..MaxFile : rdf_input \in [1..n -> FileItems]
    /\ rdf_resource = << >>
    /\ rdf_parser = "none"

\* A loop whose first logged error ends the load.
RdfFileParseStepStopping ==
    /\ rdf_pc = "reading"
    /\ rdf_read < Len(rdf_input)
    /\ \E t \in {rdf_input[rdf_read + 1]} :
         IF t = ParseErrorItem
         THEN /\ rdf_last' = "malformed"
              /\ rdf_forgets' = << 0, 0, 0 >>
              /\ rdf_pc' = "done"
              /\ rdf_ret' = "Ok"
              /\ UNCHANGED << builders, triples, rdf_committed >>
         ELSE \E r \in {on_triple(builders, triples, t, rdf_read + 1)} :
                /\ builders' = r.builders
                /\ triples' = r.triples
                /\ rdf_last' = IF r.res = "Ok" THEN "committed" ELSE r.res
                /\ rdf_committed' = IF r.res = "Ok"
                                    THEN Append(rdf_committed, rdf_read + 1)
                                    ELSE rdf_committed
                /\ rdf_forgets' = r.forgets
                /\ rdf_pc' = IF r.res = "Ok" THEN "reading" ELSE "done"
                /\ rdf_ret' = IF r.res = "Ok" THEN rdf_ret ELSE "Ok"
    /\ rdf_read' = rdf_read + 1
    /\ UNCHANGED << rdf_input, rdf_resource, rdf_parser, omj_vars, eq_vars, csv_vars, store_vars, trie_vars, prune_vars, call_vars, nest_vars, loop_vars, logic_vars >>

\* One iteration of the while loop: parser.is_end() is false and
\* parse_step either reports a parser error or hands the next triple to the
\* callback; either error is logged and the loop goes on.
RdfFileParseStep ==
    /\ rdf_pc = "reading"
    /\ rdf_read < Len(rdf_input)
    /\ \E t \in {rdf_input[rdf_read + 1]} :
         IF t = ParseErrorItem
         THEN /\ rdf_last' = "malformed"
              /\ rdf_forgets' = << 0, 0, 0 >>
              /\ UNCHANGED << builders, triples, rdf_committed >>
         ELSE \E r \in {on_triple(builders, triples, t, rdf_read + 1)} :
                /\ builders' = r.builders
                /\ triples' = r.triples
                /\ rdf_last' = IF r.res = "Ok" THEN "committed" ELSE r.res
                /\ rdf_committed' = IF r.res = "Ok"
                                    THEN Append(rdf_committed, rdf_read + 1)
                                    ELSE rdf_committed
                /\ rdf_forgets' = r.forgets
    /\ rdf_read' = rdf_read + 1
    /\ UNCHANGED << rdf_pc, rdf_ret, rdf_input, rdf_resource, rdf_parser, omj_vars, eq_vars, csv_vars, store_vars, trie_vars, prune_vars, call_vars, nest_vars, loop_vars, logic_vars >>

\* parser.is_end() is true: the loop ends and the function returns Ok(()).
RdfFileEnd ==
    /\ rdf_pc = "reading"
    /\ rdf_read = Len(rdf_input)
    /\ rdf_pc' = "done"
    /\ rdf_ret' = "Ok"
    /\ UNCHANGED << builders, triples, rdf_read, rdf_last, rdf_committed,
                    rdf_forgets, rdf_input, rdf_resource, rdf_parser, omj_vars, eq_vars, csv_vars, store_vars, trie_vars, prune_vars, call_vars, nest_vars, loop_vars, logic_vars >>

RdfFileStep == RdfFileParseStep \/ RdfFileEnd

\* The loop is sequential code: an iteration that can run does run.
SpecRdfFile == RdfFileInit /\ [][RdfFileStep]_vars /\ WF_vars(RdfFileStep)

\* ------------------------------------------------------------------------
\* RDFTriplesReader::read_into_builder_proxies
\* ------------------------------------------------------------------------
\* Resource names, as sequences of parts: a stem and extensions.
NameParts == {"a", ".ttl", ".rdf", ".gz", ".TTL"}

ResourceNames == UNION { [1..n -> NameParts] : n \in 1..MaxName }

\* str::ends_with
EndsWith(s, suffix) ==
    /\ Len(s) >= Len(suffix)
    /\ SubSeq(s, Len(s) - Len(suffix) + 1, Len(s)) = suffix

\* A choice that does not look at compressed resources.
parser_for_uncompressed(resource) ==
    IF EndsWith(resource, << ".ttl" >>) THEN "Turtle"
    ELSE IF EndsWith(resource, << ".rdf" >>) THEN "RdfXml"
    ELSE "NTriples"

\* The parser read_into_builder_proxies hands to read_with_buf_reader.
parser_for(resource) ==
    IF EndsWith(resource, << ".ttl", ".gz" >>) \/ EndsWith(resource, << ".ttl" >>)
    THEN "Turtle"
    ELSE IF EndsWith(resource, << ".rdf", ".gz" >>) \/ EndsWith(resource, << ".rdf" >>)
    THEN "RdfXml"
    ELSE "NTriples"

RdfOpenInit ==
    /\ OmjIdle
    /\ EqIdle
    /\ CsvIdle
    /\ StoreIdle
    /\ TrieIdle
    /\ PruneIdle
    /\ CallIdle
    /\ NestIdle
    /\ LoopIdle
    /\ LogicIdle
    /\ builders = << << >>, << >>, << >> >>
    /\ triples = 0
    /\ rdf_pc = "opening"
    /\ rdf_ret = "none"
    /\ rdf_read = 0
    /\ rdf_last = "none"
    /\ rdf_committed = << >>
    /\ rdf_forgets = << 0, 0, 0 >>
    /\ rdf_input = << >>
    /\ rdf_resource \in ResourceNames
    /\ rdf_parser = "none"

\* read_into_builder_proxies up to the call of read_with_buf_reader: the
\* resource is opened and the parser is made; the loop of
\* read_with_buf_reader follows.
RdfOpen ==
    /\ rdf_pc = "opening"
    /\ rdf_pc' = "reading"
    /\ rdf_parser' = parser_for(rdf_resource)
    /\ UNCHANGED << builders, triples, rdf_ret, rdf_read, rdf_last, rdf_committed,
                    rdf_forgets, rdf_input, rdf_resource,
                    omj_vars, eq_vars, csv_vars, store_vars, trie_vars, prune_vars, call_vars, nest_vars, loop_vars, logic_vars >>

\* open_resource fails: read_into_builder_proxies returns the error and no
\* parser is made.
RdfOpenFails ==
    /\ rdf_pc = "opening"
    /\ rdf_pc' = "done"
    /\ rdf_ret' = "Err"
    /\ UNCHANGED << builders, triples, rdf_read, rdf_last, rdf_committed,
                    rdf_forgets, rdf_input, rdf_resource, rdf_parser,
                    omj_vars, eq_vars, csv_vars, store_vars, trie_vars, prune_vars, call_vars, nest_vars, loop_vars, logic_vars >>

RdfOpenStep == RdfOpen \/ RdfOpenFails \/ RdfParseTriple \/ RdfParseError \/ RdfFinish

SpecRdfOpen == RdfOpenInit /\ [][RdfOpenStep]_vars

\* ------------------------------------------------------------------------
\* csv read
\* ------------------------------------------------------------------------
DataTypeNames == {"U64", "Float", "Double"}

\* Option<DataTypeName>
DataTypeOptions == { Some(d) : d \in DataTypeNames } \cup { None }

\* The texts a field of a record can hold.
Fields == {"7", "x"}

\* DataTypeName::parse: Some(the number) when the text is a number of the
\* datatype, None (an error) otherwise. "7" is a number of each of the
\* three datatypes, "x" of none.
ParseCell(datatype, item) ==
    IF datatype \in DataTypeNames /\ item = "7" THEN Some(7) ELSE None

\* Dictionary::add: the index of the string, which is appended if new.
DictIndex(dict, s) == MinOf({ i \in 1..Len(dict) : dict[i] = s }) - 1
DictAdd(dict, s) ==
    IF s \in SeqRange(dict)
    THEN [dict |-> dict, id |-> DictIndex(dict, s)]
    ELSE [dict |-> Append(dict, s), id |-> Len(dict)]

\* Vec::pop on a column: removes the last value, if any.
ColumnPop(c) == IF Len(c) = 0 THEN c ELSE SubSeq(c, 1, Len(c) - 1)

\* A rollback that pops one column too few.
rollback_one_short(res, rollback) ==
    [i \in 1..Len(res) |-> IF i <= rollback - 1 THEN ColumnPop(res[i]) ELSE res[i]]

\* for item in result.iter_mut().take(rollback) { vec.pop() }
rollback_columns(res, rollback) ==
    [i \in 1..Len(res) |-> IF i <= rollback THEN ColumnPop(res[i]) ELSE res[i]]

RECURSIVE try_for_each(_, _, _, _, _)
\* row.iter().enumerate().try_for_each(...) from the 0-based index idx on.
\* out is "Ok", "RollBack" (with the failing index in at) or "panic"
\* (datatypes[idx] out of bounds).
try_for_each(dts, res, dict, row, idx) ==
    IF idx >= Len(row)
    THEN [result |-> res, dictionary |-> dict, out |-> "Ok", at |-> 0]
    ELSE IF idx >= Len(dts)
    THEN [result |-> res, dictionary |-> dict, out |-> "panic", at |-> idx]
    ELSE IF dts[idx + 1] # None
    THEN LET val == ParseCell(Unwrap(dts[idx + 1]), row[idx + 1])
         IN  IF val # None
             THEN try_for_each(dts, [res EXCEPT ![idx + 1] = Append(@, Unwrap(val))],
                               dict, row, idx + 1)
             ELSE [result |-> res, dictionary |-> dict, out |-> "RollBack",
                   at |-> idx]
    ELSE LET added == DictAdd(dict, row[idx + 1])
         IN  try_for_each(dts, [res EXCEPT ![idx + 1] = Append(@, added.id)],
                          added.dict, row, idx + 1)

\* A rollback that also takes the rejected row's strings out of the
\* dictionary.
read_row_restoring_dictionary(dts, res, dict, row) ==
    LET r == try_for_each(dts, res, dict, row, 0)
    IN  IF r.out = "RollBack"
        THEN [r EXCEPT !.result = rollback_columns(r.result, r.at),
                       !.dictionary = dict]
        ELSE r

\* The body of records().for_each for a record the reader accepted.
read_row(dts, res, dict, row) ==
    LET r == try_for_each(dts, res, dict, row, 0)
    IN  IF r.out = "RollBack"
        THEN [r EXCEPT !.result = rollback_columns(r.result, r.at)]
        ELSE r

\* The records the reader can hand over: 1..MaxCols+1 fields.
Rows == UNION { [1..n -> Fields] : n \in 1..(MaxCols + 1) }

CsvInit ==
    /\ OmjIdle
    /\ EqIdle
    /\ RdfIdle
    /\ StoreIdle
    /\ TrieIdle
    /\ PruneIdle
    /\ CallIdle
    /\ NestIdle
    /\ LoopIdle
    /\ LogicIdle
    /\ \E k \in 1..MaxCols :
         \E dts \in [1..k -> DataTypeOptions] :
            /\ datatypes = dts
            /\ result = [i \in 1..k |-> << >>]
            /\ csv_pre = [i \in 1..k |-> << >>]
    /\ dictionary = << >>
    /\ csv_pc = "reading"
    /\ csv_ret = "none"
    /\ csv_rows = 0
    /\ csv_last = << >>
    /\ csv_all_parse = TRUE
    /\ csv_hist = << >>

\* A record the reader accepted (rec is Ok(row)).
CsvRecord ==
    /\ csv_pc = "reading"
    /\ csv_rows < MaxRows
    /\ \E row \in Rows :
         LET r == read_row(datatypes, result, dictionary, row)
         IN  /\ result' = r.result
             /\ dictionary' = r.dictionary
             /\ csv_pc' = IF r.out = "panic" THEN "panicked" ELSE "reading"
             /\ csv_last' = row
             /\ csv_all_parse' = (csv_all_parse /\ r.out = "Ok")
             /\ csv_hist' = IF csv_all_parse /\ r.out = "Ok"
                             THEN Append(csv_hist, row) ELSE << >>
    /\ csv_pre' = result
    /\ csv_rows' = csv_rows + 1
    /\ UNCHANGED << datatypes, csv_ret, omj_vars, eq_vars, rdf_vars, store_vars, trie_vars, prune_vars, call_vars, nest_vars, loop_vars, logic_vars >>

\* A record the reader could not read (rec is Err): skipped.
CsvBadRecord ==
    /\ csv_pc = "reading"
    /\ csv_rows < MaxRows
    /\ csv_rows' = csv_rows + 1
    /\ csv_last' = << >>
    /\ csv_pre' = result
    /\ csv_all_parse' = FALSE
    /\ csv_hist' = << >>
    /\ UNCHANGED << datatypes, result, dictionary, csv_pc, csv_ret,
                    omj_vars, eq_vars, rdf_vars, store_vars, trie_vars, prune_vars, call_vars, nest_vars, loop_vars, logic_vars >>

\* The records are exhausted: Ok(result.into_iter().flatten().collect()).
CsvFinish ==
    /\ csv_pc = "reading"
    /\ csv_pc' = "done"
    /\ csv_ret' = "Ok"
    /\ UNCHANGED << datatypes, result, dictionary, csv_rows, csv_last, csv_pre,
                    csv_all_parse, csv_hist, omj_vars, eq_vars, rdf_vars, store_vars, trie_vars, prune_vars, call_vars, nest_vars, loop_vars, logic_vars >>

CsvStep == CsvRecord \/ CsvBadRecord \/ CsvFinish

SpecCsv == CsvInit /\ [][CsvStep]_vars

\* ------------------------------------------------------------------------
\* Column storage and storage-backed scans (spec sections 4.1 and 4.2;
\* used by benches/seek.rs)
\* ------------------------------------------------------------------------
\* Every non-decreasing sequence over Values of length at most MaxLen.
SortedInputs ==
    UNION { { s \in [1..n -> Values] : \A i \in 1..(n - 1) : s[i] <= s[i + 1] }
            : n \in 0..MaxLen }

\* --- dense vector --------------------------------------------------------
\* VectorColumn::new keeps the values as they are given.
VectorColumnNew(data) == data

VectorLen(data) == Len(data)

\* get(i), 0 <= i < len.
VectorGet(data, i) == data[i + 1]

\* A dense scan is [lo, hi, pos] over indices 0..len-1: lo..hi-1 is the
\* interval it is narrowed to, pos = lo - 1 before the first value,
\* lo..hi-1 at a value and hi after exhaustion.
VectorIter(data) == [lo |-> 0, hi |-> Len(data), pos |-> -1]

VectorCurrent(data, sc) ==
    IF sc.pos >= sc.lo /\ sc.pos < sc.hi THEN Some(VectorGet(data, sc.pos))
    ELSE None

VectorNext(data, sc) ==
    IF sc.pos < sc.hi THEN [sc EXCEPT !.pos = sc.pos + 1] ELSE sc

RECURSIVE Gallop(_, _, _, _, _)
\* The exponential probe: data[lower] < t is known; the probe doubles its
\* step while the probed value is still below t and returns the window
\* lower+1 .. upper in which the first value >= t lies, if there is one.
Gallop(data, hi, lower, step, t) ==
    IF lower + step < hi /\ VectorGet(data, lower + step) < t
    THEN Gallop(data, hi, lower + step, 2 * step, t)
    ELSE [lower |-> lower,
          upper |-> IF lower + step < hi THEN lower + step ELSE hi - 1]

RECURSIVE VectorBinarySearch(_, _, _, _)
\* The first index in from..to (to + 1 if none) whose value is >= t.
VectorBinarySearch(data, from, to, t) ==
    IF from > to THEN from
    ELSE LET mid == (from + to) \div 2
         IN  IF VectorGet(data, mid) >= t
             THEN VectorBinarySearch(data, from, mid - 1, t)
             ELSE VectorBinarySearch(data, mid + 1, to, t)

\* The same without the binary search: the scan stops at the probe.
VectorSeekProbeOnly(data, sc, t) ==
    LET start == IF sc.pos < sc.lo THEN sc.lo ELSE sc.pos
    IN  IF start >= sc.hi THEN [sc EXCEPT !.pos = sc.hi]
        ELSE IF VectorGet(data, start) >= t THEN [sc EXCEPT !.pos = start]
        ELSE LET w == Gallop(data, sc.hi, start, 1, t)
             IN  [sc EXCEPT !.pos =
                     IF VectorGet(data, w.upper) >= t THEN w.upper ELSE sc.hi]

\* seek(t): galloping probe from the current position, then binary search
\* in the window the probe overshot.
VectorSeek(data, sc, t) ==
    LET start == IF sc.pos < sc.lo THEN sc.lo ELSE sc.pos
    IN  IF start >= sc.hi THEN [sc EXCEPT !.pos = sc.hi]
        ELSE IF VectorGet(data, start) >= t THEN [sc EXCEPT !.pos = start]
        ELSE LET w == Gallop(data, sc.hi, start, 1, t)
             IN  [sc EXCEPT !.pos =
                     VectorBinarySearch(data, w.lower + 1, w.upper, t)]

\* pos(): the index within the storage.
VectorPos(sc) ==
    IF sc.pos >= sc.lo /\ sc.pos < sc.hi THEN Some(sc.pos) ELSE None

\* reset(): back to the pre-start state over the whole column.
VectorReset(data, sc) == VectorIter(data)

\* narrow(lo..hi): restrict the scan to the interval, before its first value.
VectorNarrow(sc, lo, hi) == [lo |-> lo, hi |-> hi, pos |-> lo - 1]

\* --- run-length encoding ------------------------------------------------
\* A run is [start, increment, length]: the values start + k * increment
\* for k in 0..length-1.
RunValue(run, k) == run.start + k * run.increment

RunLast(run) == RunValue(run, run.length - 1)

\* The same, never closing a run once it has two values.
RleAppendOneRun(runs, v) ==
    IF runs = << >> THEN << [start |-> v, increment |-> 0, length |-> 1] >>
    ELSE LET n == Len(runs)
             last == runs[n]
         IN  IF last.length = 1
             THEN [runs EXCEPT ![n] = [start |-> last.start,
                                       increment |-> v - last.start,
                                       length |-> 2]]
             ELSE [runs EXCEPT ![n].length = last.length + 1]

\* The build policy: v extends the current run while the successive delta
\* matches; otherwise the run is closed and a new one opened.
RleAppend(runs, v) ==
    IF runs = << >> THEN << [start |-> v, increment |-> 0, length |-> 1] >>
    ELSE LET n == Len(runs)
             last == runs[n]
         IN  IF last.length = 1
             THEN [runs EXCEPT ![n] = [start |-> last.start,
                                       increment |-> v - last.start,
                                       length |-> 2]]
             ELSE IF v = RunValue(last, last.length)
             THEN [runs EXCEPT ![n].length = last.length + 1]
             ELSE Append(runs, [start |-> v, increment |-> 0, length |-> 1])

RECURSIVE RleColumnNew(_)
RleColumnNew(data) ==
    IF data = << >> THEN << >>
    ELSE RleAppend(RleColumnNew(SubSeq(data, 1, Len(data) - 1)),
                   data[Len(data)])

RECURSIVE CumLen(_, _)
\* The number of values in the first r runs.
CumLen(runs, r) == IF r = 0 THEN 0 ELSE CumLen(runs, r - 1) + runs[r].length

RleLen(runs) == CumLen(runs, Len(runs))

RECURSIVE RunOfIndex(_, _, _, _)
\* Binary search on the cumulative lengths: the run in from..to holding
\* index i.
RunOfIndex(runs, from, to, i) ==
    IF from >= to THEN from
    ELSE LET mid == (from + to) \div 2
         IN  IF i < CumLen(runs, mid)
             THEN RunOfIndex(runs, from, mid, i)
             ELSE RunOfIndex(runs, mid + 1, to, i)

\* get(i), 0 <= i < len.
RleGet(runs, i) ==
    LET r == RunOfIndex(runs, 1, Len(runs), i)
    IN  RunValue(runs[r], i - CumLen(runs, r - 1))

\* An RLE scan is [run, k]: run = 0 before the first value, 1..Len(runs)
\* at value k of that run, Len(runs) + 1 after exhaustion.
RleIter(runs) == [run |-> 0, k |-> 0]

RleCurrent(runs, sc) ==
    IF sc.run \in 1..Len(runs) THEN Some(RunValue(runs[sc.run], sc.k))
    ELSE None

RleNext(runs, sc) ==
    IF sc.run = 0 THEN [run |-> 1, k |-> 0]
    ELSE IF sc.run > Len(runs) THEN sc
    ELSE IF sc.k + 1 < runs[sc.run].length THEN [sc EXCEPT !.k = sc.k + 1]
    ELSE [run |-> sc.run + 1, k |-> 0]

RECURSIVE RunBinarySearch(_, _, _, _)
\* The first run in from..to (to + 1 if none) whose last value is >= t.
RunBinarySearch(runs, from, to, t) ==
    IF from > to THEN from
    ELSE LET mid == (from + to) \div 2
         IN  IF RunLast(runs[mid]) >= t
             THEN RunBinarySearch(runs, from, mid - 1, t)
             ELSE RunBinarySearch(runs, mid + 1, to, t)

\* The least k with start + k * increment >= t, in a run whose last value
\* is >= t.
SolveInRun(run, t) ==
    IF t <= run.start \/ run.increment = 0 THEN 0
    ELSE (t - run.start + run.increment - 1) \div run.increment

\* seek(t): the run index only advances; inside the run the offset is
\* solved for.
RleSeek(runs, sc, t) ==
    LET from == IF sc.run = 0 THEN [run |-> 1, k |-> 0] ELSE sc
    IN  IF from.run > Len(runs) THEN [run |-> Len(runs) + 1, k |-> 0]
        ELSE LET r == RunBinarySearch(runs, from.run, Len(runs), t)
             IN  IF r > Len(runs) THEN [run |-> r, k |-> 0]
                 ELSE LET k  == SolveInRun(runs[r], t)
                          k0 == IF r = from.run THEN from.k ELSE 0
                      IN  [run |-> r, k |-> IF k > k0 THEN k ELSE k0]

\* The index of the scan within the storage, -1 before the first value and
\* len after exhaustion.
RlePosition(runs, sc) ==
    IF sc.run = 0 THEN -1
    ELSE IF sc.run > Len(runs) THEN RleLen(runs)
    ELSE CumLen(runs, sc.run - 1) + sc.k

\* --- either storage -----------------------------------------------------
StorageKinds == {"dense", "rle"}

StorageNew(kind, data) ==
    IF kind = "dense" THEN [kind |-> "dense", data |-> VectorColumnNew(data)]
    ELSE [kind |-> "rle", runs |-> RleColumnNew(data)]

StorageLen(col) ==
    IF col.kind = "dense" THEN VectorLen(col.data) ELSE RleLen(col.runs)

StorageIter(col) ==
    IF col.kind = "dense" THEN VectorIter(col.data) ELSE RleIter(col.runs)

StorageCurrent(col, sc) ==
    IF col.kind = "dense" THEN VectorCurrent(col.data, sc)
    ELSE RleCurrent(col.runs, sc)

StorageNext(col, sc) ==
    IF col.kind = "dense" THEN VectorNext(col.data, sc)
    ELSE RleNext(col.runs, sc)

StorageSeek(col, sc, t) ==
    IF col.kind = "dense" THEN VectorSeek(col.data, sc, t)
    ELSE RleSeek(col.runs, sc, t)

StoragePosition(col, sc) ==
    IF col.kind = "dense" THEN sc.pos ELSE RlePosition(col.runs, sc)

StoreInit ==
    /\ OmjIdle
    /\ EqIdle
    /\ RdfIdle
    /\ CsvIdle
    /\ TrieIdle
    /\ PruneIdle
    /\ CallIdle
    /\ NestIdle
    /\ LoopIdle
    /\ LogicIdle
    /\ \E kind \in StorageKinds : \E data \in SortedInputs :
          /\ store_input = data
          /\ store_column = StorageNew(kind, data)
          /\ store_scan = StorageIter(StorageNew(kind, data))
    /\ store_op = "none"
    /\ store_arg = 0
    /\ store_ret = None
    /\ store_pre = -1
    /\ store_hist = "fresh"
    /\ store_out = << >>

\* A call of next() on the scan.
StoreNext ==
    /\ LET sc == StorageNext(store_column, store_scan)
           r  == StorageCurrent(store_column, sc)
       IN  /\ store_scan' = sc
           /\ store_ret' = r
           /\ store_out' = IF store_hist \in {"fresh", "nexts"} /\ r # None
                           THEN Append(store_out, Unwrap(r)) ELSE store_out
    /\ store_op' = "next"
    /\ store_arg' = 0
    /\ store_pre' = StoragePosition(store_column, store_scan)
    /\ store_hist' = IF store_hist \in {"fresh", "nexts"} THEN "nexts"
                     ELSE "other"
    /\ UNCHANGED << store_input, store_column, omj_vars, eq_vars, rdf_vars, csv_vars, trie_vars, prune_vars, call_vars, nest_vars, loop_vars, logic_vars >>

\* A call of seek(t) on the scan; targets never decrease.
StoreSeek ==
    /\ \E t \in 1..(MaxVal + 1) :
          /\ t >= store_arg
          /\ LET sc == StorageSeek(store_column, store_scan, t)
             IN  /\ store_scan' = sc
                 /\ store_ret' = StorageCurrent(store_column, sc)
          /\ store_arg' = t
    /\ store_op' = "seek"
    /\ store_pre' = StoragePosition(store_column, store_scan)
    /\ store_hist' = IF store_hist \in {"fresh", "seeks"} THEN "seeks"
                     ELSE "other"
    /\ UNCHANGED << store_input, store_column, store_out, omj_vars, eq_vars, rdf_vars, csv_vars, trie_vars, prune_vars, call_vars, nest_vars, loop_vars, logic_vars >>

StoreStep == StoreNext \/ StoreSeek

SpecStore == StoreInit /\ [][StoreStep]_vars

\* ------------------------------------------------------------------------
\* Tries, the materialized trie scan and materialization (spec section 4.4)
\* ------------------------------------------------------------------------
TrieValues == 1..TrieMaxVal

RECURSIVE RelationsUpTo(_, _)
\* Every relation of the given arity with at most n tuples.
RelationsUpTo(arity, n) ==
    IF n = 0 THEN { {} }
    ELSE LET smaller == RelationsUpTo(arity, n - 1)
         IN  smaller \cup { R \cup {t} : R \in smaller,
                                         t \in [1..arity -> TrieValues] }

\* Every relation of the given arity with at most MaxTuples tuples.
Relations(arity) == RelationsUpTo(arity, MaxTuples)

\* a < b in lexicographic order, for tuples of the same length.
LexLess(a, b) ==
    \E i \in 1..Len(a) :
        /\ a[i] < b[i]
        /\ \A j \in 1..(i - 1) : a[j] = b[j]

RECURSIVE SortTuples(_)
\* The tuples of S in strictly increasing lexicographic order.
SortTuples(S) ==
    IF S = {} THEN << >>
    ELSE LET m == CHOOSE x \in S : \A y \in S \ {x} : LexLess(x, y)
         IN  << m >> \o SortTuples(S \ {m})

\* The distinct prefixes of length l of the tuples of S, in order.
Prefixes(S, l) == SortTuples({ SubSeq(t, 1, l) : t \in S })

\* The stored trie of a relation: layer l holds, prefix by prefix, the l-th
\* values of the distinct prefixes of length l; its interval map holds, for
\* every value of layer l-1, the index in layer l where its children start.
TrieNew(S, arity) ==
    LET P == [l \in 1..arity |-> Prefixes(S, l)]
    IN  [arity   |-> arity,
         columns |-> [l \in 1..arity |-> [i \in 1..Len(P[l]) |-> P[l][i][l]]],
         starts  |-> [l \in 1..arity |->
                        IF l = 1 THEN << 0 >>
                        ELSE [i \in 1..Len(P[l - 1]) |->
                                MinOf({ j \in 1..Len(P[l]) :
                                          SubSeq(P[l][j], 1, l - 1)
                                              = P[l - 1][i] }) - 1]]]

\* The interval I[idx] .. I[idx+1] of layer l (1-based) that holds the
\* children of the value at index idx of layer l-1.
ChildRange(tr, l, idx) ==
    [lo |-> tr.starts[l][idx + 1],
     hi |-> IF idx + 2 <= Len(tr.starts[l]) THEN tr.starts[l][idx + 2]
            ELSE Len(tr.columns[l])]

\* A trie scan is [active, scans]: the active layer (0-based) and one dense
\* scan per layer.
TrieScanNew(tr) ==
    [active |-> 0,
     scans  |-> [l \in 1..tr.arity |-> VectorIter(tr.columns[l])]]

\* current_scan(): the scan of the active layer.
TrieCurrentScan(ts) == ts.scans[ts.active + 1]

TrieCurrent(tr, ts) ==
    VectorCurrent(tr.columns[ts.active + 1], TrieCurrentScan(ts))

\* current_scan().next()
TrieScanNext(tr, ts) ==
    [ts EXCEPT !.scans[ts.active + 1] =
        VectorNext(tr.columns[ts.active + 1], TrieCurrentScan(ts))]

\* current_scan().seek(v)
TrieScanSeek(tr, ts, v) ==
    [ts EXCEPT !.scans[ts.active + 1] =
        VectorSeek(tr.columns[ts.active + 1], TrieCurrentScan(ts), v)]

\* The same, narrowing the new layer to the whole column.
TrieDownUnnarrowed(tr, ts) ==
    [active |-> ts.active + 1,
     scans  |-> [ts.scans EXCEPT ![ts.active + 2] =
                    VectorIter(tr.columns[ts.active + 2])]]

\* down(): descend one layer and narrow the new layer's scan to the child
\* range of the parent's current value.
TrieDown(tr, ts) ==
    LET idx   == Unwrap(VectorPos(TrieCurrentScan(ts)))
        range == ChildRange(tr, ts.active + 2, idx)
    IN  [active |-> ts.active + 1,
         scans  |-> [ts.scans EXCEPT ![ts.active + 2] =
                        VectorNarrow(ts.scans[ts.active + 2],
                                     range.lo, range.hi)]]

\* down() may be called below a layer that is at a value and is not the
\* last one.
CanDown(tr, ts) ==
    ts.active + 1 < tr.arity /\ TrieCurrent(tr, ts) # None

\* The same, leaving the abandoned scan as it is.
TrieUpNoReset(tr, ts) ==
    IF ts.active > 0 THEN [ts EXCEPT !.active = ts.active - 1] ELSE ts

\* up(): leave the active layer if it is not the root and reset the
\* abandoned layer's scan.
TrieUp(tr, ts) ==
    IF ts.active > 0
    THEN [active |-> ts.active - 1,
          scans  |-> [ts.scans EXCEPT ![ts.active + 1] =
                         VectorReset(tr.columns[ts.active + 1],
                                     ts.scans[ts.active + 1])]]
    ELSE ts

\* The current values of layers 0..active, a prefix of a tuple.
TriePath(tr, ts) ==
    [l \in 1..(ts.active + 1) |->
        Unwrap(VectorCurrent(tr.columns[l], ts.scans[l]))]

TrieInit ==
    /\ OmjIdle
    /\ EqIdle
    /\ RdfIdle
    /\ CsvIdle
    /\ StoreIdle
    /\ PruneIdle
    /\ CallIdle
    /\ NestIdle
    /\ LoopIdle
    /\ LogicIdle
    /\ \E arity \in 1..MaxArity : \E S \in Relations(arity) :
          LET tr == TrieNew(S, arity)
          IN  /\ trie_tuples = S
              /\ trie = tr
              /\ trie_scan = TrieScanNew(tr)
              /\ trie_pre = TrieScanNew(tr)
    /\ trie_op = "none"
    /\ mat_pc = "idle"
    /\ mat_builders = << >>

\* A call of current_scan().next().
TrieNextCall ==
    /\ mat_pc = "idle"
    /\ trie_scan' = TrieScanNext(trie, trie_scan)
    /\ trie_op' = "next"
    /\ trie_pre' = trie_scan
    /\ UNCHANGED << trie_tuples, trie, mat_pc, mat_builders, omj_vars, eq_vars, rdf_vars, csv_vars, store_vars, prune_vars, call_vars, nest_vars, loop_vars, logic_vars >>

\* A call of current_scan().seek(v).
TrieSeekCall ==
    /\ mat_pc = "idle"
    /\ \E v \in TrieValues :
          trie_scan' = TrieScanSeek(trie, trie_scan, v)
    /\ trie_op' = "seek"
    /\ trie_pre' = trie_scan
    /\ UNCHANGED << trie_tuples, trie, mat_pc, mat_builders, omj_vars, eq_vars, rdf_vars, csv_vars, store_vars, prune_vars, call_vars, nest_vars, loop_vars, logic_vars >>

\* A call of down().
TrieDownCall ==
    /\ mat_pc = "idle"
    /\ CanDown(trie, trie_scan)
    /\ trie_scan' = TrieDown(trie, trie_scan)
    /\ trie_op' = "down"
    /\ trie_pre' = trie_scan
    /\ UNCHANGED << trie_tuples, trie, mat_pc, mat_builders, omj_vars, eq_vars, rdf_vars, csv_vars, store_vars, prune_vars, call_vars, nest_vars, loop_vars, logic_vars >>

\* A call of up().
TrieUpCall ==
    /\ mat_pc = "idle"
    /\ trie_scan' = TrieUp(trie, trie_scan)
    /\ trie_op' = "up"
    /\ trie_pre' = trie_scan
    /\ UNCHANGED << trie_tuples, trie, mat_pc, mat_builders, omj_vars, eq_vars, rdf_vars, csv_vars, store_vars, prune_vars, call_vars, nest_vars, loop_vars, logic_vars >>

TrieStep == TrieNextCall \/ TrieSeekCall \/ TrieDownCall \/ TrieUpCall

SpecTrie == TrieInit /\ [][TrieStep]_vars

\* ------------------------------------------------------------------------
\* ColumnScanPrune and the shared state of the prune trie scan
\* (columnscan_prune.rs; the state itself follows spec sections 4.3, 4.4)
\* ------------------------------------------------------------------------
\* The shared state is [highest_peeked_layer, external_current_layer]
\* next to the input trie scan it owns.
PruneStateNew == [highest_peeked_layer |-> None, external_current_layer |-> 0]

\* is_column_peeked(index): the layer holds a value that was reached while
\* validating a layer above it and has not been produced yet.
is_column_peeked(ps, index) ==
    /\ ps.highest_peeked_layer # None
    /\ index >= Unwrap(ps.highest_peeked_layer)

RECURSIVE GoUpTo(_, _, _)
\* The input trie scan is taken up to the given layer.
GoUpTo(tr, ts, layer) ==
    IF ts.active > layer THEN GoUpTo(tr, TrieUp(tr, ts), layer) ELSE ts

RECURSIVE AdvanceFrom(_, _, _)
\* Advance the active layer of the input trie scan and descend to a leaf;
\* a layer that is exhausted below the target layer is left upwards and
\* the layer above it advanced, until a value of the target layer with a
\* completion is found or the target layer is exhausted.
AdvanceFrom(tr, ts, target) ==
    Apply(LAMBDA nx :
            IF TrieCurrent(tr, nx) = None
            THEN IF nx.active = target THEN [ts |-> nx, found |-> FALSE]
                 ELSE AdvanceFrom(tr, TrieUp(tr, nx), target)
            ELSE IF nx.active + 1 = tr.arity THEN [ts |-> nx, found |-> TRUE]
            ELSE AdvanceFrom(tr, TrieDown(tr, nx), target),
          TrieScanNext(tr, ts))

\* advance_on_layer(target_layer, false): a peeked layer is produced as it
\* is; otherwise the layer is advanced and the layers below it are peeked.
advance_on_layer(tr, ts, ps, target) ==
    IF is_column_peeked(ps, target)
    THEN [ts |-> ts,
          ps |-> [ps EXCEPT !.highest_peeked_layer =
                     IF target + 1 < tr.arity THEN Some(target + 1) ELSE None]]
    ELSE Apply(LAMBDA r :
                 [ts |-> r.ts,
                  ps |-> [ps EXCEPT !.highest_peeked_layer =
                             IF r.found /\ target + 1 < tr.arity
                             THEN Some(target + 1) ELSE None]],
               AdvanceFrom(tr, GoUpTo(tr, ts, target), target))

\* external_down(): the prune trie scan enters the next layer.
external_down(ps) ==
    [ps EXCEPT !.external_current_layer = ps.external_current_layer + 1]

\* external_up(): the prune trie scan leaves its layer, if it is not the
\* root.
external_up(ps) ==
    IF ps.external_current_layer > 0
    THEN [ps EXCEPT !.external_current_layer = ps.external_current_layer - 1]
    ELSE ps

\* reference_scan.current() of the column scan with the given index.
ReferenceCurrent(tr, ts, column_scan_index) ==
    VectorCurrent(tr.columns[column_scan_index + 1],
                  ts.scans[column_scan_index + 1])

\* The same, never advancing the shared state.
prune_next_no_advance(tr, ts, ps, column_scan_index) ==
    [ts |-> ts, ps |-> ps,
     ret |-> ReferenceCurrent(tr, ts, column_scan_index)]

\* ColumnScanPrune::next: the shared state advances the layer, then the
\* reference scan's current value is returned.
prune_next(tr, ts, ps, column_scan_index) ==
    Apply(LAMBDA st :
            [ts |-> st.ts, ps |-> st.ps,
             ret |-> ReferenceCurrent(tr, st.ts, column_scan_index)],
          advance_on_layer(tr, ts, ps, column_scan_index))

\* The same, producing the peeked value as next() does.
prune_current_unpeeking(tr, ts, ps, column_scan_index) ==
    [ps  |-> IF is_column_peeked(ps, column_scan_index)
             THEN [ps EXCEPT !.highest_peeked_layer =
                      IF column_scan_index + 1 < tr.arity
                      THEN Some(column_scan_index + 1) ELSE None]
             ELSE ps,
     ret |-> ReferenceCurrent(tr, ts, column_scan_index)]

\* ColumnScanPrune::current: reads the shared state, writes nothing.
prune_current(tr, ts, ps, column_scan_index) ==
    [ps  |-> ps,
     ret |-> IF is_column_peeked(ps, column_scan_index) THEN None
             ELSE ReferenceCurrent(tr, ts, column_scan_index)]

\* ------------------------------------------------------------------------
\* Materialization: the depth-first walk over a trie scan (spec 4.4)
\* ------------------------------------------------------------------------
\* The walk drains either kind of trie scan.
ScanKinds == {"materialized", "prune"}

\* The active layer of the trie scan.
WalkLayer(kind, ts, ps) ==
    IF kind = "materialized" THEN ts.active ELSE ps.external_current_layer

\* current_scan().next() of the trie scan.
WalkNext(tr, kind, ts, ps) ==
    IF kind = "materialized"
    THEN Apply(LAMBDA nx : [ts |-> nx, ps |-> ps, ret |-> TrieCurrent(tr, nx)],
               TrieScanNext(tr, ts))
    ELSE prune_next(tr, ts, ps, ps.external_current_layer)

\* down() of the trie scan.
WalkDown(tr, kind, ts, ps) ==
    IF kind = "materialized" THEN [ts |-> TrieDown(tr, ts), ps |-> ps]
    ELSE [ts |-> ts, ps |-> external_down(ps)]

\* up() of the trie scan.
WalkUp(tr, kind, ts, ps) ==
    IF kind = "materialized" THEN [ts |-> TrieUp(tr, ts), ps |-> ps]
    ELSE [ts |-> ts, ps |-> external_up(ps)]

\* The current values across the layers of the trie scan.
WalkTuple(tr, kind, ts, ps) ==
    IF kind = "materialized" THEN TriePath(tr, ts)
    ELSE [l \in 1..tr.arity |-> Unwrap(prune_current(tr, ts, ps, l - 1).ret)]

\* The walk never goes up: on None it stays where it is.
MatAfterNoneStuck(tr, kind, ts, ps) ==
    [ts |-> ts, ps |-> ps, pc |-> "walking"]

\* The walk after next() returned None: up, or the end when up fails at
\* the root.
MatAfterNone(tr, kind, ts, ps) ==
    IF WalkLayer(kind, ts, ps) = 0 THEN [ts |-> ts, ps |-> ps, pc |-> "done"]
    ELSE [ts |-> WalkUp(tr, kind, ts, ps).ts, ps |-> WalkUp(tr, kind, ts, ps).ps,
          pc |-> "walking"]

\* One round of the walk: next() at the active layer; on a value, the
\* tuple is pushed at the last layer and the scan taken down above it; on
\* None, up.
MatRound(tr, kind, ts, ps, bs) ==
    Apply(LAMBDA nx :
            IF nx.ret # None
            THEN IF WalkLayer(kind, nx.ts, nx.ps) + 1 = tr.arity
                 THEN [ts |-> nx.ts, ps |-> nx.ps, pc |-> "walking",
                       builders |-> [l \in 1..tr.arity |->
                           BuilderAdd(bs[l],
                                      WalkTuple(tr, kind, nx.ts, nx.ps)[l],
                                      FALSE)]]
                 ELSE [ts |-> WalkDown(tr, kind, nx.ts, nx.ps).ts,
                       ps |-> WalkDown(tr, kind, nx.ts, nx.ps).ps,
                       pc |-> "walking", builders |-> bs]
            ELSE [ts |-> MatAfterNone(tr, kind, nx.ts, nx.ps).ts,
                  ps |-> MatAfterNone(tr, kind, nx.ts, nx.ps).ps,
                  pc |-> MatAfterNone(tr, kind, nx.ts, nx.ps).pc,
                  builders |-> bs],
          WalkNext(tr, kind, ts, ps))

RECURSIVE MatDrain(_, _, _, _, _)
\* The builders at the end of the walk that starts from ts, ps and bs.
MatDrain(tr, kind, ts, ps, bs) ==
    Apply(LAMBDA r : IF r.pc = "done" THEN r.builders
                     ELSE MatDrain(tr, kind, r.ts, r.ps, r.builders),
          MatRound(tr, kind, ts, ps, bs))

\* The start of a walk over a trie scan of the given kind; scan_drain is
\* recorded when the walk is to be compared with it.
WalkStart(kind, compare) ==
    /\ \E arity \in 1..MaxArity : \E S \in Relations(arity) :
          LET tr == TrieNew(S, arity)
          IN  /\ trie_tuples = S
              /\ trie = tr
              /\ trie_scan = TrieScanNew(tr)
              /\ trie_pre = TrieScanNew(tr)
              /\ mat_builders = [l \in 1..arity |-> << >>]
              /\ scan_drain = IF kind = "prune" /\ compare
                              THEN MatDrain(tr, "materialized",
                                            TrieScanNew(tr), PruneStateNew,
                                            [l \in 1..arity |-> << >>])
                              ELSE << >>
    /\ scan_kind = kind
    /\ trie_op = "none"
    /\ mat_pc = "walking"
    /\ prune_state = PruneStateNew
    /\ prune_op = "none"
    /\ prune_obs = << >>

MatInit ==
    /\ OmjIdle
    /\ EqIdle
    /\ RdfIdle
    /\ CsvIdle
    /\ StoreIdle
    /\ CallIdle
    /\ NestIdle
    /\ LoopIdle
    /\ LogicIdle
    /\ \E kind \in ScanKinds : WalkStart(kind, FALSE)

\* A round of the walk that finds a value at the last layer: the tuple of
\* the current values is pushed, one value to each layer's builder.
MatLeaf ==
    /\ mat_pc = "walking"
    /\ \E nx \in {WalkNext(trie, scan_kind, trie_scan, prune_state)} :
       \E r \in {MatRound(trie, scan_kind, trie_scan, prune_state,
                          mat_builders)} :
           /\ nx.ret # None
           /\ WalkLayer(scan_kind, nx.ts, nx.ps) + 1 = trie.arity
           /\ trie_scan' = r.ts
           /\ prune_state' = r.ps
           /\ mat_pc' = r.pc
           /\ mat_builders' = r.builders
    /\ trie_op' = "next"
    /\ trie_pre' = trie_scan
    /\ prune_op' = "next"
    /\ prune_obs' = << >>
    /\ UNCHANGED << trie_tuples, trie, scan_kind, scan_drain, omj_vars, eq_vars, rdf_vars, csv_vars, store_vars, call_vars, nest_vars, loop_vars, logic_vars >>

\* A round of the walk that finds a value above the last layer: down.
MatDescend ==
    /\ mat_pc = "walking"
    /\ \E nx \in {WalkNext(trie, scan_kind, trie_scan, prune_state)} :
       \E r \in {MatRound(trie, scan_kind, trie_scan, prune_state,
                          mat_builders)} :
           /\ nx.ret # None
           /\ WalkLayer(scan_kind, nx.ts, nx.ps) + 1 < trie.arity
           /\ trie_scan' = r.ts
           /\ prune_state' = r.ps
           /\ mat_pc' = r.pc
           /\ mat_builders' = r.builders
           /\ trie_pre' = nx.ts
    /\ trie_op' = "down"
    /\ prune_op' = "down"
    /\ prune_obs' = << >>
    /\ UNCHANGED << trie_tuples, trie, scan_kind, scan_drain, omj_vars, eq_vars, rdf_vars, csv_vars, store_vars, call_vars, nest_vars, loop_vars, logic_vars >>

\* A round of the walk in which next() returns None: up, or the end of
\* the walk at the root.
MatAscend ==
    /\ mat_pc = "walking"
    /\ \E nx \in {WalkNext(trie, scan_kind, trie_scan, prune_state)} :
       \E r \in {MatRound(trie, scan_kind, trie_scan, prune_state,
                          mat_builders)} :
           /\ nx.ret = None
           /\ trie_scan' = r.ts
           /\ prune_state' = r.ps
           /\ mat_pc' = r.pc
           /\ mat_builders' = r.builders
           /\ trie_pre' = nx.ts
    /\ trie_op' = "up"
    /\ prune_op' = "up"
    /\ prune_obs' = << >>
    /\ UNCHANGED << trie_tuples, trie, scan_kind, scan_drain, omj_vars, eq_vars, rdf_vars, csv_vars, store_vars, call_vars, nest_vars, loop_vars, logic_vars >>

MatStep == MatLeaf \/ MatDescend \/ MatAscend

SpecMat == MatInit /\ [][MatStep]_vars

\* The walk is a loop that runs to completion: it keeps taking rounds.
SpecMatFair == MatInit /\ [][MatStep]_vars /\ WF_vars(MatStep)

\* --- the prune trie scan under the walk, with calls of current() ---------
PruneInit ==
    /\ OmjIdle
    /\ EqIdle
    /\ RdfIdle
    /\ CsvIdle
    /\ StoreIdle
    /\ CallIdle
    /\ NestIdle
    /\ LoopIdle
    /\ LogicIdle
    /\ WalkStart("prune", TRUE)

\* A call of current() on the prune column scan of some layer.
PruneCurrent ==
    /\ mat_pc = "walking"
    /\ scan_kind = "prune"
    /\ \E index \in 0..(trie.arity - 1) :
          LET r == prune_current(trie, trie_scan, prune_state, index)
          IN  /\ prune_state' = r.ps
              /\ prune_obs' = << [index |-> index, ret |-> r.ret,
                                  state |-> prune_state] >>
    /\ prune_op' = "current"
    /\ UNCHANGED << scan_kind, scan_drain, trie_vars, omj_vars, eq_vars, rdf_vars, csv_vars, store_vars, call_vars, nest_vars, loop_vars, logic_vars >>

PruneStep == MatStep \/ PruneCurrent

SpecPrune == PruneInit /\ [][PruneStep]_vars

\* ------------------------------------------------------------------------
\* reset(), pos() and narrow() of OrderedMergeJoin, ColumnScanEqualColumn
\* and ColumnScanPrune. A call that reaches unimplemented!() panics: it
\* never returns and leaves the scan as it was.
\* ------------------------------------------------------------------------
\* A reset() of the join that also rewinds every sub-scan.
omj_reset_rewinding(s) ==
    [st |-> OmjNew([i \in 1..Len(s.column_scans) |->
                       FreshScan(s.column_scans[i].col)]),
     outcome |-> "returned"]

\* OrderedMergeJoin: ColumnScan::reset
omj_reset(s) ==
    [st |-> [s EXCEPT !.active_scan = 0, !.active_max = None, !.current = None],
     outcome |-> "returned"]

\* OrderedMergeJoin: RangedColumnScan::pos
omj_pos(s) == [st |-> s, outcome |-> "unimplemented"]

\* OrderedMergeJoin: RangedColumnScan::narrow
omj_narrow(s, interval) == [st |-> s, outcome |-> "unimplemented"]

\* ColumnScanEqualColumn: RangedColumnScan::pos
eq_pos(s) == [st |-> s, outcome |-> "unimplemented"]

\* ColumnScanEqualColumn: RangedColumnScan::narrow
eq_narrow(s, interval) == [st |-> s, outcome |-> "unimplemented"]

\* A reset() of the prune scan that rewinds the shared state and returns.
prune_reset_rewinding(ps) ==
    [st |-> [ps EXCEPT !.highest_peeked_layer = None], outcome |-> "returned"]

\* ColumnScanPrune: ColumnScan::reset
prune_reset(ps) == [st |-> ps, outcome |-> "unimplemented"]

\* ColumnScanPrune: RangedColumnScan::pos
prune_pos(ps) == [st |-> ps, outcome |-> "unimplemented"]

\* ColumnScanPrune: RangedColumnScan::narrow
prune_narrow(ps, interval) == [st |-> ps, outcome |-> "unimplemented"]

\* The intervals a caller passes to narrow().
Intervals == { << 0, 1 >>, << 1, 2 >> }

\* Which scan the calls go to, and whether its thread is still running.
OmjLive == column_scans # << >> /\ ~panicked
EqLive == column_scans = << >> /\ mat_pc = "idle" /\ ~panicked
PruneLive == mat_pc # "idle" /\ scan_kind = "prune" /\ ~panicked

CallsInit == OmjInit \/ EqInit \/ PruneInit

OmjCall(r, op) ==
    /\ column_scans' = r.st.column_scans
    /\ active_scan' = r.st.active_scan
    /\ active_max' = r.st.active_max
    /\ current' = r.st.current
    /\ panicked' = (r.outcome = "unimplemented")
    /\ call_pre' = [st |-> OmjState, ret |-> omj_ret]
    /\ omj_op' = op
    /\ omj_arg' = 0
    /\ omj_hist' = "other"
    /\ omj_out' = << >>
    /\ omj_matched' = 0
    /\ UNCHANGED << omj_ret, eq_vars, rdf_vars, csv_vars, store_vars, trie_vars, prune_vars, nest_vars, loop_vars, logic_vars >>

OmjLiveNext == OmjLive /\ OmjNext

OmjReset == OmjLive /\ OmjCall(omj_reset(OmjState), "reset")

OmjPos == OmjLive /\ OmjCall(omj_pos(OmjState), "pos")

OmjNarrow ==
    /\ OmjLive
    /\ \E interval \in Intervals : OmjCall(omj_narrow(OmjState, interval), "narrow")

EqCall(r, op) ==
    /\ reference_scan' = r.st.reference_scan
    /\ value_scan' = r.st.value_scan
    /\ current_value' = r.st.current_value
    /\ panicked' = (r.outcome = "unimplemented")
    /\ call_pre' = [st |-> EqState, ret |-> eq_ret]
    /\ eq_op' = op
    /\ eq_arg' = 0
    /\ eq_calls' = Capped(eq_calls)
    /\ eq_hist' = "other"
    /\ UNCHANGED << eq_ret, eq_pre, eq_nexts, omj_vars, rdf_vars, csv_vars, store_vars, trie_vars, prune_vars, nest_vars, loop_vars, logic_vars >>

EqLiveNext == EqLive /\ EqNext

EqLiveReset == EqLive /\ EqReset

EqPos == EqLive /\ EqCall(eq_pos(EqState), "pos")

EqNarrow ==
    /\ EqLive
    /\ \E interval \in Intervals : EqCall(eq_narrow(EqState, interval), "narrow")

PruneCall(r, op) ==
    /\ prune_state' = r.st
    /\ panicked' = (r.outcome = "unimplemented")
    /\ call_pre' = [st |-> prune_state, ret |-> prune_obs]
    /\ prune_op' = op
    /\ UNCHANGED << scan_kind, prune_obs, scan_drain, trie_vars, omj_vars, eq_vars, rdf_vars, csv_vars, store_vars, nest_vars, loop_vars, logic_vars >>

PruneLiveWalk == PruneLive /\ MatStep

PruneLiveCurrent == PruneLive /\ PruneCurrent

PruneReset == PruneLive /\ PruneCall(prune_reset(prune_state), "reset")

PrunePos == PruneLive /\ PruneCall(prune_pos(prune_state), "pos")

PruneNarrow ==
    /\ PruneLive
    /\ \E interval \in Intervals : PruneCall(prune_narrow(prune_state, interval), "narrow")

CallsStep ==
    \/ OmjLiveNext \/ OmjReset \/ OmjPos \/ OmjNarrow
    \/ EqLiveNext \/ EqLiveReset \/ EqPos \/ EqNarrow
    \/ PruneLiveWalk \/ PruneLiveCurrent \/ PruneReset \/ PrunePos \/ PruneNarrow

SpecCalls == CallsInit /\ [][CallsStep]_vars


\* ------------------------------------------------------------------------
\* ColumnScanPrune over an input trie scan with dead prefixes (values
\* without a completion down to a leaf, as the trie scan of a join has)
\* ------------------------------------------------------------------------
\* The nodes of the input: every proper prefix of the tuples of S, and the
\* tuples of S but those in cut, whose leaves are missing.
DeadNodes(S, cut, arity) ==
    { SubSeq(t, 1, l) : t \in S, l \in 1..(arity - 1) } \cup (S \ cut)

\* The input trie of a set of nodes N closed under prefixes: as TrieNew,
\* but the children of a value may be none (an empty interval).
DeadTrieNew(N, arity) ==
    LET P == [l \in 1..arity |-> SortTuples({ n \in N : Len(n) = l })]
    IN  [arity   |-> arity,
         columns |-> [l \in 1..arity |-> [i \in 1..Len(P[l]) |-> P[l][i][l]]],
         starts  |-> [l \in 1..arity |->
                        IF l = 1 THEN << 0 >>
                        ELSE [i \in 1..Len(P[l - 1]) |->
                                Cardinality({ j \in 1..Len(P[l]) :
                                    LexLess(SubSeq(P[l][j], 1, l - 1),
                                            P[l - 1][i]) })]]]

RECURSIVE AdvanceFromSeek(_, _, _, _)
\* As AdvanceFrom, the first move being a seek to the minimum value.
AdvanceFromSeek(tr, ts, target, minimum_value) ==
    Apply(LAMBDA nx :
            IF TrieCurrent(tr, nx) = None
            THEN IF nx.active = target THEN [ts |-> nx, found |-> FALSE]
                 ELSE AdvanceFrom(tr, TrieUp(tr, nx), target)
            ELSE IF nx.active + 1 = tr.arity THEN [ts |-> nx, found |-> TRUE]
            ELSE AdvanceFrom(tr, TrieDown(tr, nx), target),
          TrieScanSeek(tr, ts, minimum_value))

\* advance_on_layer_with_seek(target_layer, false, reference_scan,
\* minimum_value): a peeked value that is large enough is produced as it
\* is; otherwise the layer is seeked and the layers below it are peeked.
advance_on_layer_with_seek(tr, ts, ps, target, minimum_value) ==
    IF /\ is_column_peeked(ps, target)
       /\ ReferenceCurrent(tr, ts, target) # None
       /\ Unwrap(ReferenceCurrent(tr, ts, target)) >= minimum_value
    THEN [ts |-> ts,
          ps |-> [ps EXCEPT !.highest_peeked_layer =
                     IF target + 1 < tr.arity THEN Some(target + 1) ELSE None],
          ret |-> ReferenceCurrent(tr, ts, target)]
    ELSE Apply(LAMBDA r :
                 [ts |-> r.ts,
                  ps |-> [ps EXCEPT !.highest_peeked_layer =
                             IF r.found /\ target + 1 < tr.arity
                             THEN Some(target + 1) ELSE None],
                  ret |-> ReferenceCurrent(tr, r.ts, target)],
               AdvanceFromSeek(tr, GoUpTo(tr, ts, target), target, minimum_value))

\* A seek() that forgets its minimum value and does what next() does.
prune_seek_as_next(tr, ts, ps, column_scan_index, minimum_value) ==
    prune_next(tr, ts, ps, column_scan_index)

\* ColumnScanPrune::seek: what the shared state's
\* advance_on_layer_with_seek returns.
prune_seek(tr, ts, ps, column_scan_index, minimum_value) ==
    advance_on_layer_with_seek(tr, ts, ps, column_scan_index, minimum_value)

DeadInit ==
    /\ OmjIdle
    /\ EqIdle
    /\ RdfIdle
    /\ CsvIdle
    /\ StoreIdle
    /\ CallIdle
    /\ NestIdle
    /\ LoopIdle
    /\ LogicIdle
    /\ \E arity \in 1..MaxArity : \E S \in Relations(arity) : \E cut \in SUBSET S :
          LET tr == DeadTrieNew(DeadNodes(S, cut, arity), arity)
          IN  /\ trie_tuples = S \ cut
              /\ trie = tr
              /\ trie_scan = TrieScanNew(tr)
              /\ trie_pre = TrieScanNew(tr)
              /\ mat_builders = [l \in 1..arity |-> << >>]
    /\ scan_drain = << >>
    /\ scan_kind = "prune"
    /\ trie_op = "none"
    /\ mat_pc = "walking"
    /\ prune_state = PruneStateNew
    /\ prune_op = "none"
    /\ prune_obs = << >>

\* The owner of the prune column scans after a call at its layer returned
\* ret: down below a value, up after None, the end after None at the root.
DeadAfter(r, call, minimum_value) ==
    LET layer == prune_state.external_current_layer
    IN  /\ trie_scan' = r.ts
        /\ prune_state' = IF r.ret # None
                          THEN (IF layer + 1 < trie.arity THEN external_down(r.ps)
                                ELSE r.ps)
                          ELSE external_up(r.ps)
        /\ mat_pc' = IF r.ret = None /\ layer = 0 THEN "done" ELSE "walking"
        /\ prune_op' = call
        /\ prune_obs' = << [index |-> layer, arg |-> minimum_value, ret |-> r.ret,
                            ts |-> trie_scan, state |-> prune_state] >>
        /\ UNCHANGED << trie_tuples, trie, trie_op, trie_pre, mat_builders,
                        scan_kind, scan_drain >>

\* next() on the prune column scan of the owner's layer.
DeadNext ==
    /\ mat_pc = "walking"
    /\ \E r \in {prune_next(trie, trie_scan, prune_state,
                            prune_state.external_current_layer)} :
          DeadAfter(r, "next", 0)
    /\ UNCHANGED << omj_vars, eq_vars, rdf_vars, csv_vars, store_vars, call_vars, nest_vars, loop_vars, logic_vars >>

\* seek(minimum_value) on the prune column scan of the owner's layer.
DeadSeek ==
    /\ mat_pc = "walking"
    /\ \E minimum_value \in TrieValues :
         \E r \in {prune_seek(trie, trie_scan, prune_state,
                              prune_state.external_current_layer,
                              minimum_value)} :
            DeadAfter(r, "seek", minimum_value)
    /\ UNCHANGED << omj_vars, eq_vars, rdf_vars, csv_vars, store_vars, call_vars, nest_vars, loop_vars, logic_vars >>

DeadStep == DeadNext \/ DeadSeek

SpecDead == DeadInit /\ [][DeadStep]_vars

\* ------------------------------------------------------------------------
\* OrderedMergeJoin whose sub-scans are OrderedMergeJoins (the type
\* parameter Scan instantiated with OrderedMergeJoin itself)
\* ------------------------------------------------------------------------
RECURSIVE nested_next_loop(_, _)
\* The matching loop over sub-scans that are joins: the comparison uses
\* what the sub-scan's seek() returns, the new active_max is the sub-scan's
\* current().
nested_next_loop(s, matched_scans) ==
    LET n  == Len(s.column_scans)
        a  == (s.active_scan + 1) % n
        r  == omj_seek(s.column_scans[a + 1], Unwrap(s.active_max))
        s1 == [s EXCEPT !.active_scan = a,
                        !.column_scans = [@ EXCEPT ![a + 1] = r.st]]
    IN  IF s.active_max = r.ret
        THEN IF AllMatched(matched_scans + 1, n)
             THEN [st  |-> [s1 EXCEPT !.current = s.active_max],
                   ret |-> s.active_max]
             ELSE nested_next_loop(s1, matched_scans + 1)
        ELSE LET s2 == [s1 EXCEPT !.active_max = omj_current(r.st)]
             IN  IF s2.active_max = None
                 THEN [st |-> [s2 EXCEPT !.current = None], ret |-> None]
                 ELSE nested_next_loop(s2, 1)

\* Iterator::next over sub-scans that are joins.
nested_next(s) ==
    LET a  == s.active_scan
        r  == omj_next(s.column_scans[a + 1])
        s1 == [s EXCEPT !.column_scans = [@ EXCEPT ![a + 1] = r.st],
                        !.active_max = r.ret]
    IN  IF s1.active_max = None
        THEN [st |-> [s1 EXCEPT !.current = None], ret |-> None]
        ELSE IF Len(s.column_scans) > 1
             THEN nested_next_loop(s1, 1)
             ELSE [st |-> s1, ret |-> s1.active_max]

\* The numbers of sub-scans of the inner joins, one per sub-scan of the
\* outer join.
JoinShapes == { << 1 >>, << 2 >>, << 1, 1 >>, << 1, 2 >>, << 2, 1 >>, << 2, 2 >> }

\* Every fresh join over k storage scans.
FreshJoins(k) ==
    { OmjNew([i \in 1..k |-> FreshScan(cols[i])]) : cols \in [1..k -> Columns] }

NestInit ==
    /\ OmjIdle
    /\ EqIdle
    /\ RdfIdle
    /\ CsvIdle
    /\ StoreIdle
    /\ TrieIdle
    /\ PruneIdle
    /\ CallIdle
    /\ LoopIdle
    /\ LogicIdle
    /\ \E shape \in JoinShapes :
         \E inner \in [1..Len(shape) -> UNION { FreshJoins(shape[i]) : i \in 1..Len(shape) }] :
            /\ \A i \in 1..Len(shape) : Len(inner[i].column_scans) = shape[i]
            /\ nest_join = OmjNew(inner)
    /\ nest_op = "none"
    /\ nest_ret = None
    /\ nest_out = << >>

NestNext ==
    /\ \E r \in {nested_next(nest_join)} :
          /\ nest_join' = r.st
          /\ nest_ret' = r.ret
          /\ nest_out' = IF r.ret = None THEN nest_out
                         ELSE Append(nest_out, Unwrap(r.ret))
    /\ nest_op' = "next"
    /\ UNCHANGED << omj_vars, eq_vars, rdf_vars, csv_vars, store_vars, trie_vars, prune_vars, call_vars, loop_vars, logic_vars >>

NestStep == NestNext

SpecNest == NestInit /\ [][NestStep]_vars

\* ------------------------------------------------------------------------
\* OrderedMergeJoin::next_loop, one iteration at a time
\* ------------------------------------------------------------------------
LoopColumns == { SetToSeq(S) : S \in SUBSET (1..LoopMaxVal) }

LoopInit ==
    /\ OmjIdle
    /\ EqIdle
    /\ RdfIdle
    /\ CsvIdle
    /\ StoreIdle
    /\ TrieIdle
    /\ PruneIdle
    /\ CallIdle
    /\ NestIdle
    /\ LogicIdle
    /\ \E n \in 1..MaxScans :
         \E cols \in [1..n -> LoopColumns] :
            loop_join = OmjNew([i \in 1..n |-> FreshScan(cols[i])])
    /\ loop_pc = "idle"
    /\ loop_matched = 0
    /\ loop_ret = None
    /\ loop_last = "none"
    /\ loop_call = "none"
    /\ loop_nones = 0

\* loop_nones after a next() call has returned ret.
NonesAfter(nones, ret) ==
    IF nones = 0 THEN (IF ret = None THEN 1 ELSE 0) ELSE 2

\* What next() and seek() do once the active scan has been moved and
\* active_max holds its value: return, or enter the loop with
\* matched_scans = 1.
LoopEnter(s1, call) ==
    IF Len(s1.column_scans) > 1
    THEN /\ loop_join' = s1
         /\ loop_pc' = "loop"
         /\ loop_matched' = 1
         /\ loop_nones' = IF call = "next" THEN loop_nones ELSE 0
         /\ UNCHANGED loop_ret
    ELSE /\ loop_join' = s1
         /\ loop_pc' = "idle"
         /\ loop_ret' = s1.active_max
         /\ loop_nones' = IF call = "next"
                          THEN NonesAfter(loop_nones, s1.active_max) ELSE 0
         /\ UNCHANGED loop_matched

\* A next() that, finding the active scan exhausted, rewinds it.
NextExhaustedRewinding(s1) ==
    [s1 EXCEPT !.current = None,
               !.column_scans = [@ EXCEPT ![s1.active_scan + 1] = FreshScan(@.col)]]

\* Iterator::next when the active scan's next() returned None: the join
\* clears current (and returns None).
NextExhausted(s1) == [s1 EXCEPT !.current = None]

\* Iterator::next up to the call of next_loop
LoopCallNext ==
    /\ loop_pc = "idle"
    /\ LET s   == loop_join
           a   == s.active_scan
           adv == ScanNext(s.column_scans[a + 1])
           s1  == [s EXCEPT !.column_scans = [@ EXCEPT ![a + 1] = adv],
                            !.active_max = ScanCurrent(adv)]
       IN  IF s1.active_max = None
           THEN /\ loop_join' = NextExhausted(s1)
                /\ loop_ret' = None
                /\ loop_nones' = NonesAfter(loop_nones, None)
                /\ UNCHANGED << loop_pc, loop_matched >>
           ELSE LoopEnter(s1, "next")
    /\ loop_last' = "call"
    /\ loop_call' = "next"
    /\ UNCHANGED << omj_vars, eq_vars, rdf_vars, csv_vars, store_vars, trie_vars, prune_vars, call_vars, nest_vars, logic_vars >>

\* ColumnScan::seek up to the call of next_loop
LoopCallSeek ==
    /\ loop_pc = "idle"
    /\ \E value \in 1..LoopMaxVal :
         LET s      == loop_join
             a      == s.active_scan
             sought == ScanSeek(s.column_scans[a + 1], value)
             seek_result == ScanCurrent(sought)
             s0     == [s EXCEPT !.column_scans = [@ EXCEPT ![a + 1] = sought]]
         IN  IF seek_result = None
             THEN /\ loop_join' = [s0 EXCEPT !.current = None]
                  /\ loop_ret' = None
                  /\ loop_nones' = 0
                  /\ UNCHANGED << loop_pc, loop_matched >>
             ELSE LoopEnter([s0 EXCEPT !.active_max = seek_result], "seek")
    /\ loop_last' = "call"
    /\ loop_call' = "seek"
    /\ UNCHANGED << omj_vars, eq_vars, rdf_vars, csv_vars, store_vars, trie_vars, prune_vars, call_vars, nest_vars, logic_vars >>

\* An iteration that, after a mismatch, goes on with the old active_max.
LoopBodyStale(s, matched) ==
    LET n      == Len(s.column_scans)
        a      == (s.active_scan + 1) % n
        sought == ScanSeek(s.column_scans[a + 1], Unwrap(s.active_max))
        s1     == [s EXCEPT !.active_scan = a,
                            !.column_scans = [@ EXCEPT ![a + 1] = sought]]
    IN  IF s.active_max = ScanCurrent(sought)
        THEN IF AllMatched(matched + 1, n)
             THEN [st |-> [s1 EXCEPT !.current = s.active_max], pc |-> "idle",
                   matched |-> matched + 1, ret |-> s.active_max, last |-> "match"]
             ELSE [st |-> s1, pc |-> "loop", matched |-> matched + 1,
                   ret |-> None, last |-> "match"]
        ELSE [st |-> s1, pc |-> "loop", matched |-> 1, ret |-> None,
              last |-> "mismatch"]

\* One iteration of the loop of next_loop: pc is "idle" when the iteration
\* returned ret, "loop" when the loop goes round again.
LoopBody(s, matched) ==
    LET n      == Len(s.column_scans)
        a      == (s.active_scan + 1) % n
        sought == ScanSeek(s.column_scans[a + 1], Unwrap(s.active_max))
        s1     == [s EXCEPT !.active_scan = a,
                            !.column_scans = [@ EXCEPT ![a + 1] = sought]]
    IN  IF s.active_max = ScanCurrent(sought)
        THEN IF AllMatched(matched + 1, n)
             THEN [st |-> [s1 EXCEPT !.current = s.active_max], pc |-> "idle",
                   matched |-> matched + 1, ret |-> s.active_max, last |-> "match"]
             ELSE [st |-> s1, pc |-> "loop", matched |-> matched + 1,
                   ret |-> None, last |-> "match"]
        ELSE LET s2 == [s1 EXCEPT !.active_max = ScanCurrent(sought)]
             IN  IF s2.active_max = None
                 THEN [st |-> [s2 EXCEPT !.current = None], pc |-> "idle",
                       matched |-> 1, ret |-> None, last |-> "mismatch"]
                 ELSE [st |-> s2, pc |-> "loop", matched |-> 1, ret |-> None,
                       last |-> "mismatch"]

LoopIter ==
    /\ loop_pc = "loop"
    /\ \E r \in {LoopBody(loop_join, loop_matched)} :
          /\ loop_join' = r.st
          /\ loop_pc' = r.pc
          /\ loop_matched' = r.matched
          /\ loop_ret' = IF r.pc = "idle" THEN r.ret ELSE loop_ret
          /\ loop_last' = r.last
          /\ loop_nones' = IF r.pc = "idle" /\ loop_call = "next"
                           THEN NonesAfter(loop_nones, r.ret) ELSE loop_nones
    /\ UNCHANGED loop_call
    /\ UNCHANGED << omj_vars, eq_vars, rdf_vars, csv_vars, store_vars, trie_vars, prune_vars, call_vars, nest_vars, logic_vars >>

\* ColumnScan::reset between calls
LoopReset ==
    /\ loop_pc = "idle"
    /\ loop_join' = omj_reset(loop_join).st
    /\ loop_last' = "reset"
    /\ loop_nones' = 0
    /\ UNCHANGED << loop_pc, loop_matched, loop_ret, loop_call >>
    /\ UNCHANGED << omj_vars, eq_vars, rdf_vars, csv_vars, store_vars, trie_vars, prune_vars, call_vars, nest_vars, logic_vars >>

LoopStep == LoopCallNext \/ LoopCallSeek \/ LoopIter \/ LoopReset

\* A call runs to its return: the loop keeps iterating.
SpecLoop == LoopInit /\ [][LoopStep]_vars /\ WF_vars(LoopIter)

\* ------------------------------------------------------------------------
\* The logical data model: Term, Atom, Literal, Rule
\* ------------------------------------------------------------------------
\* Identifier: the names interned for variables and constants.
Identifiers == {"x", "y"}

\* Term: a universally quantified variable, an existentially quantified
\* variable or a (ground) constant.
Terms ==
    [tag : {"Variable", "ExistentialVariable"}, id : Identifiers]
        \cup {[tag |-> "Constant", id |-> "c"]}

\* Atom: a predicate and its terms (here unary atoms of one predicate).
Atoms == [predicate : {"p"}, terms : [1..1 -> Terms]]

\* Literal: Positive(atom) or Negative(atom).
Literals == [tag : {"Positive", "Negative"}, atom : Atoms]

\* Atom::universal_variables, in the order of the terms.
universal_variables(atom) ==
    SelectSeq([i \in 1..Len(atom.terms) |-> atom.terms[i]],
              LAMBDA term : term.tag = "Variable")

\* Atom::existential_variables, in the order of the terms.
existential_variables(atom) ==
    SelectSeq([i \in 1..Len(atom.terms) |-> atom.terms[i]],
              LAMBDA term : term.tag = "ExistentialVariable")

\* Literal::is_positive, is_negative, atom
is_positive(literal) == literal.tag = "Positive"

is_negative(literal) == literal.tag = "Negative"

atom(literal) == literal.atom

\* A negation whose result is always negative.
neg_to_negative(literal) == [tag |-> "Negative", atom |-> literal.atom]

\* impl Neg for Literal
neg(literal) ==
    IF literal.tag = "Positive"
    THEN [tag |-> "Negative", atom |-> literal.atom]
    ELSE [tag |-> "Positive", atom |-> literal.atom]

RECURSIVE FlatMap(_, _)
\* iter().flat_map(f): the concatenation of f over the sequence.
FlatMap(F(_), s) ==
    IF s = << >> THEN << >> ELSE F(Head(s)) \o FlatMap(F, Tail(s))

\* The identifiers of a sequence of variable terms: in order, and as a set.
IdSeq(ts) == [i \in 1..Len(ts) |-> ts[i].id]

IdSet(ts) == { ts[i].id : i \in 1..Len(ts) }

\* A validation that looks for doubly quantified variables first.
new_validated_quantifiers_first(head, body) ==
    LET body_existential == IdSeq(FlatMap(LAMBDA l : existential_variables(atom(l)), body))
        positive == SelectSeq(body, is_positive)
        negative == SelectSeq(body, LAMBDA l : ~is_positive(l))
        unsafe == IdSet(FlatMap(LAMBDA l : universal_variables(atom(l)), negative))
                     \ IdSet(FlatMap(LAMBDA l : universal_variables(atom(l)), positive))
        universal == IdSet(FlatMap(LAMBDA l : universal_variables(atom(l)), body))
                        \cup IdSet(FlatMap(universal_variables, head))
        common == universal \cap IdSet(FlatMap(existential_variables, head))
    IN  IF common # {}
        THEN [tag |-> "BothQuantifiers", among |-> common]
        ELSE IF body_existential # << >>
        THEN [tag |-> "BodyExistential", among |-> {body_existential[1]}]
        ELSE IF unsafe # {}
        THEN [tag |-> "UnsafeNegatedVariable", among |-> unsafe]
        ELSE [tag |-> "Ok", rule |-> [head |-> head, body |-> body]]

\* Rule::new_validated. An error carries the name of one variable: the
\* first existential variable of the body, or the variable a hash set
\* happens to yield first (among: the variables it can be).
new_validated(head, body) ==
    LET body_existential == IdSeq(FlatMap(LAMBDA l : existential_variables(atom(l)), body))
        positive == SelectSeq(body, is_positive)
        negative == SelectSeq(body, LAMBDA l : ~is_positive(l))
        unsafe == IdSet(FlatMap(LAMBDA l : universal_variables(atom(l)), negative))
                     \ IdSet(FlatMap(LAMBDA l : universal_variables(atom(l)), positive))
        universal == IdSet(FlatMap(LAMBDA l : universal_variables(atom(l)), body))
                        \cup IdSet(FlatMap(universal_variables, head))
        common == universal \cap IdSet(FlatMap(existential_variables, head))
    IN  IF body_existential # << >>
        THEN [tag |-> "BodyExistential", among |-> {body_existential[1]}]
        ELSE IF unsafe # {}
        THEN [tag |-> "UnsafeNegatedVariable", among |-> unsafe]
        ELSE IF common # {}
        THEN [tag |-> "BothQuantifiers", among |-> common]
        ELSE [tag |-> "Ok", rule |-> [head |-> head, body |-> body]]

RuleInit ==
    /\ OmjIdle
    /\ EqIdle
    /\ RdfIdle
    /\ CsvIdle
    /\ StoreIdle
    /\ TrieIdle
    /\ PruneIdle
    /\ CallIdle
    /\ NestIdle
    /\ LoopIdle
    /\ LitIdle
    /\ SourceIdle
    /\ ParserIdle
    /\ \E n \in 0..MaxLits : rule_head \in [1..n -> Atoms]
    /\ \E n \in 0..MaxLits : rule_body \in [1..n -> Literals]
    /\ rule_ret = << >>

\* The parser builds the rule from the head and the body it has parsed.
RuleValidate ==
    /\ rule_ret = << >>
    /\ rule_ret' = << new_validated(rule_head, rule_body) >>
    /\ UNCHANGED << rule_head, rule_body, lit_vars, source_vars, parser_vars, omj_vars, eq_vars, rdf_vars, csv_vars, store_vars, trie_vars, prune_vars, call_vars, nest_vars, loop_vars >>

RuleStep == RuleValidate

SpecRule == RuleInit /\ [][RuleStep]_vars

\* ------------------------------------------------------------------------
\* Negation of literals
\* ------------------------------------------------------------------------
\* Atoms of two predicates with up to MaxTerms terms.
LitAtoms ==
    [predicate : {"p", "q"}, terms : UNION { [1..k -> Terms] : k \in 0..MaxTerms }]

LitInit ==
    /\ OmjIdle
    /\ EqIdle
    /\ RdfIdle
    /\ CsvIdle
    /\ StoreIdle
    /\ TrieIdle
    /\ PruneIdle
    /\ CallIdle
    /\ NestIdle
    /\ LoopIdle
    /\ RuleIdle
    /\ SourceIdle
    /\ ParserIdle
    /\ lit_input \in [tag : {"Positive", "Negative"}, atom : LitAtoms]
    /\ lit_cur = lit_input
    /\ lit_negs = 0

\* -literal
LitNeg ==
    /\ lit_negs < 2
    /\ lit_cur' = neg(lit_cur)
    /\ lit_negs' = lit_negs + 1
    /\ UNCHANGED << lit_input, rule_vars, source_vars, parser_vars, omj_vars, eq_vars, rdf_vars, csv_vars, store_vars, trie_vars, prune_vars, call_vars, nest_vars, loop_vars >>

LitStep == LitNeg

SpecLit == LitInit /\ [][LitStep]_vars

\* ------------------------------------------------------------------------
\* DataSourceDeclaration::new_validated, and the builders of the RDF reader
\* ------------------------------------------------------------------------
\* The projection clauses: texts of variable characters and commas.
Projections == UNION { [1..n -> {"v", ","}] : n \in 0..MaxProjection }

\* DataSource: a CSV file, an RDF file or a SPARQL query.
DataSources ==
    {[kind |-> "CsvFile", projection |-> << >>],
     [kind |-> "RdfFile", projection |-> << >>]}
        \cup [kind : {"SparqlQuery"}, projection : Projections]

RECURSIVE Split(_, _)
\* str::split(sep): the pieces between the separators, in order (a text
\* without separator is one piece, also the empty text).
Split(s, sep) ==
    IF \A i \in 1..Len(s) : s[i] # sep THEN << s >>
    ELSE LET i == MinOf({ k \in 1..Len(s) : s[k] = sep })
         IN  << SubSeq(s, 1, i - 1) >> \o Split(SubSeq(s, i + 1, Len(s)), sep)

\* A validation that takes the commas of the projection for its variables.
source_new_validated_counting_commas(source, arity) ==
    IF source.kind = "CsvFile"
    THEN [tag |-> "Ok", arity |-> arity, source |-> source]
    ELSE IF source.kind = "RdfFile"
    THEN IF arity # 3
         THEN [tag |-> "RdfSourceInvalidArity", arity |-> arity]
         ELSE [tag |-> "Ok", arity |-> arity, source |-> source]
    ELSE LET variables == Len(Split(source.projection, ",")) - 1
         IN  IF variables # arity
             THEN [tag |-> "SparqlSourceInvalidArity", variables |-> variables,
                   arity |-> arity]
             ELSE [tag |-> "Ok", arity |-> arity, source |-> source]

\* DataSourceDeclaration::new_validated
source_new_validated(source, arity) ==
    IF source.kind = "CsvFile"
    THEN [tag |-> "Ok", arity |-> arity, source |-> source]
    ELSE IF source.kind = "RdfFile"
    THEN IF arity # 3
         THEN [tag |-> "RdfSourceInvalidArity", arity |-> arity]
         ELSE [tag |-> "Ok", arity |-> arity, source |-> source]
    ELSE LET variables == Len(Split(source.projection, ","))
         IN  IF variables # arity
             THEN [tag |-> "SparqlSourceInvalidArity", variables |-> variables,
                   arity |-> arity]
             ELSE [tag |-> "Ok", arity |-> arity, source |-> source]

\* The builders of read_with_buf_reader: the builder proxies zipped with
\* the logical types, as many as the shorter of the two.
ZippedBuilders(proxies, types) == IF proxies <= types THEN proxies ELSE types

SourceInit ==
    /\ OmjIdle
    /\ EqIdle
    /\ RdfIdle
    /\ CsvIdle
    /\ StoreIdle
    /\ TrieIdle
    /\ PruneIdle
    /\ CallIdle
    /\ NestIdle
    /\ LoopIdle
    /\ RuleIdle
    /\ LitIdle
    /\ ParserIdle
    /\ src_source \in DataSources
    /\ src_arity \in 0..MaxSourceArity
    /\ src_ret = << >>
    /\ rdr_proxies \in 0..MaxSourceArity
    /\ rdr_types \in 0..MaxSourceArity
    /\ rdr_pc = "idle"

\* The parser validates the declaration of a data source.
SourceValidate ==
    /\ src_ret = << >>
    /\ src_ret' = << source_new_validated(src_source, src_arity) >>
    /\ UNCHANGED << src_source, src_arity, rdr_proxies, rdr_types, rdr_pc,
                    rule_vars, lit_vars, parser_vars, omj_vars, eq_vars, rdf_vars, csv_vars, store_vars, trie_vars, prune_vars, call_vars, nest_vars, loop_vars >>

\* read_with_buf_reader up to assert!(builders.len() == 3).
ReaderStart ==
    /\ rdr_pc = "idle"
    /\ rdr_pc' = IF ZippedBuilders(rdr_proxies, rdr_types) = 3
                 THEN "reading" ELSE "panicked"
    /\ UNCHANGED << src_source, src_arity, src_ret, rdr_proxies, rdr_types,
                    rule_vars, lit_vars, parser_vars, omj_vars, eq_vars, rdf_vars, csv_vars, store_vars, trie_vars, prune_vars, call_vars, nest_vars, loop_vars >>

SourceStep == SourceValidate \/ ReaderStart

SpecSource == SourceInit /\ [][SourceStep]_vars

\* ------------------------------------------------------------------------
\* RuleParser: directives and interning
\* ------------------------------------------------------------------------
\* The IRIs and the prefix names of the directives.
Iris == {"http://a/", "http://b/"}

PrefixNames == {"foo", "bar"}

\* The inputs given to parse_base and parse_prefix: the keyword the input
\* begins with, the prefix name and the IRI reference that follow ("" where
\* the text is none), and whether the closing dot is there.
DirectiveInputs ==
    [keyword : {"@base"}, prefix : {""}, iri : Iris \cup {""}, dot : BOOLEAN]
        \cup [keyword : {"@prefix"}, prefix : PrefixNames \cup {""},
              iri : Iris \cup {""}, dot : BOOLEAN]

\* The strings that are interned.
TermNames == {"p", "foo", "bar"}

\* The facts given to parse_fact: predicate("value"^^<datatype>) with or
\* without the closing dot.
FactInputs ==
    [predicate : TermNames, value : TermNames, datatype : TermNames, dot : BOOLEAN]

\* Dictionary::entry: the string of a handle.
DictEntry(dict, id) ==
    IF id >= 0 /\ id < Len(dict) THEN Some(dict[id + 1]) ELSE None

\* HashMap::get and the entry(prefix).and_modify(..).or_insert(iri) of
\* parse_prefix.
MapGet(map, key) ==
    IF \E kv \in map : kv[1] = key
    THEN Some((CHOOSE kv \in map : kv[1] = key)[2])
    ELSE None

MapPut(map, key, value) ==
    { kv \in map : kv[1] # key } \cup { << key, value >> }

\* RuleParser::base and resolve_prefix
parser_base(b) == b

resolve_prefix(map, prefix) == MapGet(map, prefix)

\* A parse_base that sets the base before the directive has been parsed to
\* its end.
parse_base_eager(b, input) ==
    IF input.keyword = "@base" /\ input.iri \in Iris
    THEN [base |-> Some(input.iri), ok |-> input.dot]
    ELSE [base |-> b, ok |-> FALSE]

\* parse_base: "@base", an IRI reference and the dot; on success the base
\* is set, on failure the function has returned before it is.
parse_base(b, input) ==
    IF input.keyword = "@base" /\ input.iri \in Iris /\ input.dot
    THEN [base |-> Some(input.iri), ok |-> TRUE]
    ELSE [base |-> b, ok |-> FALSE]

\* parse_prefix: "@prefix", a prefix name, an IRI reference and the dot; on
\* success the prefix is mapped to the IRI, also when it was mapped before.
parse_prefix(map, input) ==
    IF /\ input.keyword = "@prefix"
       /\ input.prefix \in PrefixNames
       /\ input.iri \in Iris
       /\ input.dot
    THEN [prefixes |-> MapPut(map, input.prefix, input.iri), ok |-> TRUE]
    ELSE [prefixes |-> map, ok |-> FALSE]

\* An interning that gives every call a new handle.
intern_term_always_new(dict, term) ==
    [dict |-> Append(dict, term), id |-> Len(dict)]

\* RuleParser::intern_term and resolve_term
intern_term(dict, term) == DictAdd(dict, term)

resolve_term(dict, term) == DictEntry(dict, term)

ParserInit ==
    /\ OmjIdle
    /\ EqIdle
    /\ RdfIdle
    /\ CsvIdle
    /\ StoreIdle
    /\ TrieIdle
    /\ PruneIdle
    /\ CallIdle
    /\ NestIdle
    /\ LoopIdle
    /\ RuleIdle
    /\ LitIdle
    /\ SourceIdle
    /\ names = << >>
    /\ base = None
    /\ prefixes = {}
    /\ parser_parsed = << >>
    /\ parser_last = "none"
    /\ parser_handles = {}

\* parser.parse_base()(input)
ParseBase ==
    /\ \E input \in DirectiveInputs : \E r \in {parse_base(base, input)} :
          /\ r.ok => Len(parser_parsed) < MaxDirectives
          /\ base' = r.base
          /\ parser_parsed' = IF r.ok THEN Append(parser_parsed, input)
                              ELSE parser_parsed
          /\ parser_last' = IF r.ok THEN "ok" ELSE "failed"
    /\ UNCHANGED << names, prefixes, parser_handles, rule_vars, lit_vars, source_vars,
                    omj_vars, eq_vars, rdf_vars, csv_vars, store_vars, trie_vars, prune_vars, call_vars, nest_vars, loop_vars >>

\* parser.parse_prefix()(input)
ParsePrefix ==
    /\ \E input \in DirectiveInputs : \E r \in {parse_prefix(prefixes, input)} :
          /\ r.ok => Len(parser_parsed) < MaxDirectives
          /\ prefixes' = r.prefixes
          /\ parser_parsed' = IF r.ok THEN Append(parser_parsed, input)
                              ELSE parser_parsed
          /\ parser_last' = IF r.ok THEN "ok" ELSE "failed"
    /\ UNCHANGED << names, base, parser_handles, rule_vars, lit_vars, source_vars,
                    omj_vars, eq_vars, rdf_vars, csv_vars, store_vars, trie_vars, prune_vars, call_vars, nest_vars, loop_vars >>

\* parser.intern_term(term), called by the owner of the parser.
InternTerm ==
    /\ \E term \in TermNames : \E r \in {intern_term(names, term)} :
          /\ names' = r.dict
          /\ parser_handles' = parser_handles \cup { << term, r.id >> }
          /\ parser_last' = IF \E h \in parser_handles : h[1] = term
                             THEN "intern_again" ELSE "intern"
    /\ UNCHANGED << base, prefixes, parser_parsed, rule_vars, lit_vars, source_vars,
                    omj_vars, eq_vars, rdf_vars, csv_vars, store_vars, trie_vars, prune_vars, call_vars, nest_vars, loop_vars >>

\* parser.parse_fact()(input): the value and the datatype of the literal
\* are interned while the term is parsed, the predicate name after the
\* whole fact has been parsed.
ParseFact ==
    /\ \E input \in FactInputs :
         \E v \in {intern_term(names, input.value)} :
         \E d \in {intern_term(v.dict, input.datatype)} :
         \E p \in {intern_term(d.dict, input.predicate)} :
            IF input.dot
            THEN /\ names' = p.dict
                 /\ parser_handles' = parser_handles \cup
                        { << input.value, v.id >>, << input.datatype, d.id >>,
                          << input.predicate, p.id >> }
                 /\ parser_last' = "ok"
            ELSE /\ names' = d.dict
                 /\ parser_handles' = parser_handles \cup
                        { << input.value, v.id >>, << input.datatype, d.id >> }
                 /\ parser_last' = "failed"
    /\ UNCHANGED << base, prefixes, parser_parsed, rule_vars, lit_vars, source_vars,
                    omj_vars, eq_vars, rdf_vars, csv_vars, store_vars, trie_vars, prune_vars, call_vars, nest_vars, loop_vars >>

ParserStep == ParseBase \/ ParsePrefix \/ InternTerm \/ ParseFact

SpecParser == ParserInit /\ [][ParserStep]_vars

\* ------------------------------------------------------------------------
\* Claims about OrderedMergeJoin (checked under SpecOMJ)
\* ------------------------------------------------------------------------
\* The values common to all sub-scans' columns.
OmjIntersection ==
    { v \in Values : \A i \in 1..Len(column_scans) : v \in SeqRange(column_scans[i].col) }

IsPrefix(s, t) == Len(s) <= Len(t) /\ \A i \in 1..Len(s) : s[i] = t[i]

\* The least element of S that is >= v, as an Option.
LeastGE(S, v) ==
    LET above == { x \in S : x >= v }
    IN  IF above = {} THEN None ELSE Some(MinOf(above))

\* C1: draining a fresh join by repeated next() returns exactly the
\* intersection of the sub-scans' columns, each element once, in ascending
\* order, and None only after all of them.
C1_DrainYieldsIntersection ==
    omj_hist = "nexts" =>
        /\ IsPrefix(omj_out, SetToSeq(OmjIntersection))
        /\ (omj_ret = None => omj_out = SetToSeq(OmjIntersection))

\* A drained join over three different columns whose intersection has two
\* elements, with a column value outside the intersection.
C1_Witness ==
    /\ omj_hist = "nexts"
    /\ omj_ret = None
    /\ Len(column_scans) = 3
    /\ Len(omj_out) = 2
    /\ \E i \in 1..3 : Len(column_scans[i].col) = 3

\* C2: on a fresh join, in a sequence of seeks with non-decreasing targets,
\* each seek(v) returns the least element >= v of the intersection, or None.
C2_SeekYieldsLeastCommon ==
    (omj_hist = "seeks" /\ omj_op = "seek") =>
        omj_ret = LeastGE(OmjIntersection, omj_arg)

\* A seek over three sub-scans that had to skip past its target.
C2_Witness ==
    /\ omj_hist = "seeks"
    /\ omj_op = "seek"
    /\ Len(column_scans) = 3
    /\ omj_ret # None
    /\ Unwrap(omj_ret) > omj_arg
    /\ \E i \in 1..3 : omj_arg \in SeqRange(column_scans[i].col)

\* C3: after every next() or seek() call, current() is the value the call
\* returned, for every number of sub-scans (one included).
C3_CurrentIsLastReturn ==
    omj_op \in {"next", "seek"} => omj_current(OmjState) = omj_ret

\* The same, for joins over at least two sub-scans only.
OmjCurrentIsLastReturnFromTwo ==
    (omj_op \in {"next", "seek"} /\ Len(column_scans) >= 2) =>
        omj_current(OmjState) = omj_ret

\* The columns under a join of joins.
NestColumns ==
    UNION { { nest_join.column_scans[i].column_scans[j].col :
                j \in 1..Len(nest_join.column_scans[i].column_scans) } :
            i \in 1..Len(nest_join.column_scans) }

NestIntersection == { v \in Values : \A col \in NestColumns : v \in SeqRange(col) }

\* C23: a join whose sub-scans are joins (joins over a single sub-scan
\* included) drains by next() to exactly the ascending intersection of all
\* underlying columns.
C23_NestedDrainYieldsIntersection ==
    nest_op = "next" =>
        /\ IsPrefix(nest_out, SetToSeq(NestIntersection))
        /\ (nest_ret = None => nest_out = SetToSeq(NestIntersection))

\* The same, when every inner join has at least two sub-scans.
NestedDrainYieldsIntersectionFromTwo ==
    (nest_op = "next"
        /\ \A i \in 1..Len(nest_join.column_scans) :
              Len(nest_join.column_scans[i].column_scans) >= 2) =>
        /\ IsPrefix(nest_out, SetToSeq(NestIntersection))
        /\ (nest_ret = None => nest_out = SetToSeq(NestIntersection))

\* C24: whenever next() or seek() of a join over n >= 2 sub-scans returns
\* Some(v), every sub-scan is positioned at v, and the loop's count of
\* consecutive agreeing sub-scans has reached n.
C24_EmittedValueIsAtEverySubScan ==
    (omj_op \in {"next", "seek"} /\ Len(column_scans) >= 2 /\ omj_ret # None) =>
        /\ \A i \in 1..Len(column_scans) : ScanCurrent(column_scans[i]) = omj_ret
        /\ omj_matched = Len(column_scans)

\* A value emitted by a join over three different columns after the
\* sub-scans had to skip values.
C24_Witness ==
    /\ omj_op \in {"next", "seek"}
    /\ Len(column_scans) = 3
    /\ omj_ret # None
    /\ omj_matched = 3
    /\ \E i \in 1..3, j \in 1..3 : column_scans[i].pos > column_scans[j].pos
    /\ \A i \in 1..3 : ScanCurrent(column_scans[i]) = omj_ret

\* C25: the matching loop terminates: while it runs active_max has a value
\* that never decreases and strictly increases at every mismatch; the
\* iteration whose seek finds a sub-scan exhausted returns None; the loop
\* ends with an emitted match or with None at an exhausted sub-scan; and
\* every call that enters the loop returns.
C25_MatchingLoopTerminates ==
    /\ [][(loop_pc = "loop" /\ loop_last' \in {"match", "mismatch"}) =>
            /\ loop_join'.active_max # None =>
                  Unwrap(loop_join'.active_max) >= Unwrap(loop_join.active_max)
            /\ (loop_last' = "mismatch" /\ loop_join'.active_max # None) =>
                  Unwrap(loop_join'.active_max) > Unwrap(loop_join.active_max)
            /\ (loop_last' = "match") => loop_join'.active_max = loop_join.active_max
            /\ ScanCurrent(loop_join'.column_scans[loop_join'.active_scan + 1]) = None
                  => (loop_pc' = "idle" /\ loop_ret' = None)
            /\ loop_pc' = "idle" =>
                  \/ loop_last' = "match" /\ loop_ret' = loop_join.active_max
                  \/ /\ loop_last' = "mismatch" /\ loop_ret' = None
                     /\ ScanCurrent(loop_join'.column_scans[loop_join'.active_scan + 1]) = None
          ]_vars
    /\ [](loop_pc = "loop" => loop_join.active_max # None)
    /\ (loop_pc = "loop") ~> (loop_pc = "idle")

\* The loop, over three sub-scans, has just had a mismatch that raised
\* active_max and goes round again.
C25_Witness ==
    /\ loop_pc = "loop"
    /\ loop_last = "mismatch"
    /\ Len(loop_join.column_scans) = 3
    /\ loop_join.active_max = Some(LoopMaxVal)

\* C26: once a next() of the join has returned None, every later next()
\* returns None and current() stays None, as long as only next() is called.
C26_ExhaustionIsPermanent ==
    (loop_pc = "idle" /\ loop_nones >= 1) =>
        (loop_ret = None /\ omj_current(loop_join) = None)

\* A next() on a join over three sub-scans returned after an earlier
\* next() had returned None, with one sub-scan exhausted and another not.
C26_Witness ==
    /\ loop_pc = "idle"
    /\ loop_nones = 2
    /\ Len(loop_join.column_scans) = 3
    /\ \E i \in 1..3 : loop_join.column_scans[i].pos <= Len(loop_join.column_scans[i].col)
    /\ \E i \in 1..3 : loop_join.column_scans[i].pos > Len(loop_join.column_scans[i].col)

\* ------------------------------------------------------------------------
\* Claims about ColumnScanEqualColumn (checked under SpecEq)
\* ------------------------------------------------------------------------
\* The values a storage scan can still be positioned at by a seek.
Remaining(sc) ==
    { sc.col[i] : i \in (IF sc.pos = 0 THEN 1 ELSE sc.pos)..Len(sc.col) }

\* C4: a fresh equality scan has no current value; with the reference at r
\* its first next() returns Some(r) if the value scan can seek to exactly r
\* and None otherwise; no call returns a value other than the reference's.
C4_FirstNextYieldsReferenceValue ==
    /\ eq_calls = 0 => eq_current(EqState) = None
    /\ (eq_calls = 1 /\ eq_op = "next"
            /\ ScanCurrent(eq_pre.reference_scan) # None) =>
          LET r == Unwrap(ScanCurrent(eq_pre.reference_scan))
          IN  eq_ret = IF r \in Remaining(eq_pre.value_scan) THEN Some(r) ELSE None
    /\ (eq_op \in {"next", "seek"} /\ eq_ret # None) =>
          eq_ret = ScanCurrent(eq_pre.reference_scan)

\* The first next() found the reference's value behind the value scan's
\* first value.
C4_Witness ==
    /\ eq_calls = 1
    /\ eq_op = "next"
    /\ eq_ret # None
    /\ eq_ret = ScanCurrent(reference_scan)
    /\ eq_pre.value_scan.pos = 0
    /\ value_scan.pos = 2

\* C5: within one positioning (reference not moved, scan not reset), once
\* next() has been called every later next() returns None.
C5_NextYieldsAtMostOnce ==
    (eq_op = "next" /\ eq_nexts >= 2) => eq_ret = None

\* C6: with the reference at r, seek(v) for v > r returns None, clears the
\* current value and leaves the value scan alone; for v <= r it returns
\* what next() returns in that state and leaves the state next() leaves.
C6_SeekIsGuardedNext ==
    (eq_op = "seek" /\ ScanCurrent(eq_pre.reference_scan) # None) =>
        IF eq_arg > Unwrap(ScanCurrent(eq_pre.reference_scan))
        THEN /\ eq_ret = None
             /\ eq_current(EqState) = None
             /\ value_scan = eq_pre.value_scan
             /\ reference_scan = eq_pre.reference_scan
        ELSE /\ eq_ret = eq_next(eq_pre).ret
             /\ EqState = eq_next(eq_pre).st

\* A seek to the reference's own value that moved the value scan and
\* returned the value.
C6_Witness ==
    /\ eq_op = "seek"
    /\ eq_ret = Some(eq_arg)
    /\ eq_ret = ScanCurrent(eq_pre.reference_scan)
    /\ value_scan # eq_pre.value_scan

\* C21: after every next() or seek() call on the equality scan, also when
\* the reference scan has been moved and has no value, current() is the
\* value the call returned.
C21_EqCurrentIsLastReturn ==
    eq_op \in {"next", "seek"} => eq_current(EqState) = eq_ret

\* The same, for calls made while the reference scan has a value, and for
\* every next().
EqCurrentIsLastReturnWithReference ==
    (eq_op \in {"next", "seek"}
        /\ (eq_op = "next" \/ ScanCurrent(eq_pre.reference_scan) # None))
       => eq_current(EqState) = eq_ret

\* C22: in a sequence of seeks with non-decreasing targets on an equality
\* scan whose reference is at r, seek(t) returns the first value >= t of
\* the scan's output (r if t <= r and the value column holds r, nothing
\* otherwise) and leaves the scan positioned at it, also when the scan is
\* already positioned at that value.
C22_EqSeekYieldsLeastAtOrAbove ==
    (eq_hist = "seeks" /\ eq_op = "seek"
        /\ ScanCurrent(eq_pre.reference_scan) # None) =>
       LET r == Unwrap(ScanCurrent(eq_pre.reference_scan))
           out == IF r \in Remaining(eq_pre.value_scan) THEN {r} ELSE {}
       IN  /\ eq_ret = LeastGE(out, eq_arg)
           /\ eq_current(EqState) = eq_ret

\* The same, for the first seek of the sequence only.
EqFirstSeekYieldsLeastAtOrAbove ==
    (eq_hist = "seeks" /\ eq_op = "seek" /\ eq_calls = 1
        /\ ScanCurrent(eq_pre.reference_scan) # None) =>
       LET r == Unwrap(ScanCurrent(eq_pre.reference_scan))
           out == IF r \in Remaining(eq_pre.value_scan) THEN {r} ELSE {}
       IN  /\ eq_ret = LeastGE(out, eq_arg)
           /\ eq_current(EqState) = eq_ret

\* C28: next, seek and reset of the equality scan never change the
\* reference scan; reset leaves the value scan alone; next and seek change
\* the value scan only by a seek to the reference's current value, and not
\* at all when the reference has no value or when seek's target is greater
\* than the reference's value.
C28_EqualityScanFrame ==
    [][/\ eq_op' \in {"next", "seek", "reset"} => reference_scan' = reference_scan
       /\ eq_op' = "reset" => value_scan' = value_scan
       /\ eq_op' \in {"next", "seek"} =>
             IF ScanCurrent(reference_scan) = None
             THEN value_scan' = value_scan
             ELSE \/ value_scan' = value_scan
                  \/ value_scan' = ScanSeek(value_scan,
                                            Unwrap(ScanCurrent(reference_scan)))
       /\ (eq_op' = "seek" /\ ScanCurrent(reference_scan) # None
              /\ eq_arg' > Unwrap(ScanCurrent(reference_scan)))
             => value_scan' = value_scan
      ]_vars

\* A seek beyond the reference's value left alone a value scan that a seek
\* to the reference's value would have moved.
C28_Witness ==
    /\ eq_op = "seek"
    /\ ScanCurrent(eq_pre.reference_scan) # None
    /\ eq_arg > Unwrap(ScanCurrent(eq_pre.reference_scan))
    /\ value_scan = eq_pre.value_scan
    /\ reference_scan = eq_pre.reference_scan
    /\ ScanSeek(value_scan, Unwrap(ScanCurrent(reference_scan))) # value_scan

\* C29: reset() on the equality scan sets current() to None, and the
\* next() that follows it returns Some(r) if the value scan can seek to
\* exactly the reference's present value r, and None otherwise.
C29_ResetStartsNewPositioning ==
    /\ eq_op = "reset" => eq_current(EqState) = None
    /\ eq_hist = "reset_next" =>
          LET ref == ScanCurrent(eq_pre.reference_scan)
          IN  /\ eq_pre.current_value = None
              /\ eq_ret = IF ref # None /\ Unwrap(ref) \in Remaining(eq_pre.value_scan)
                          THEN ref ELSE None

\* The next() after a reset() returned the reference's value again, the
\* value scan standing on it since an earlier call.
C29_Witness ==
    /\ eq_hist = "reset_next"
    /\ eq_ret # None
    /\ eq_ret = ScanCurrent(reference_scan)
    /\ eq_pre.value_scan.pos >= 1
    /\ value_scan = eq_pre.value_scan

\* ------------------------------------------------------------------------
\* Claims about the RDF triples reader (checked under SpecRdf)
\* ------------------------------------------------------------------------
\* C7: after any sequence of triples the three builders hold exactly one
\* cell per committed triple and none of a rejected one, so all three have
\* the length of the count of committed triples.
C7_BuildersHoldCommittedTriples ==
    /\ \A j \in 1..3 : builders[j] = rdf_committed
    /\ \A j \in 1..3 : Len(builders[j]) = triples

\* A triple whose third add failed has just been rolled back, after two
\* committed triples.
C7_Witness ==
    /\ rdf_last = "add3"
    /\ rdf_read = 3
    /\ triples = 2
    /\ \A j \in 1..3 : builders[j] = << 1, 2 >>

\* C20: on a column builder, add of a value immediately followed by
\* forget() leaves the builder's contents and length as they were; and when
\* the add on builder j fails the RDF reader calls forget exactly once on
\* each of the builders before j and on no other builder (no forget at all
\* in a step in which no add fails).
C20_AddThenForgetIsIdentity ==
    /\ \A i \in 1..3 : \A cell \in 1..(MaxTriples + 1) :
          LET b == BuilderForget(BuilderAdd(builders[i], cell, FALSE))
          IN  b = builders[i] /\ Len(b) = Len(builders[i])
    /\ \A j \in 1..3 :
          rdf_last = << "add1", "add2", "add3" >>[j]
             => rdf_forgets = [i \in 1..3 |-> IF i < j THEN 1 ELSE 0]
    /\ rdf_last \notin {"add1", "add2", "add3"} => rdf_forgets = << 0, 0, 0 >>

\* The add on the third builder failed after a triple had been committed:
\* the first two builders were rolled back onto non-empty contents.
C20_Witness ==
    /\ rdf_last = "add3"
    /\ rdf_forgets = << 1, 1, 0 >>
    /\ triples >= 1
    /\ \A i \in 1..3 : Len(builders[i]) = triples

RECURSIVE WellFormedUpTo(_)
\* The 1-based positions of the well-formed triples among the first n items
\* of the resource, in input order.
WellFormedUpTo(n) ==
    IF n = 0 THEN << >>
    ELSE IF WellFormed(rdf_input[n]) THEN Append(WellFormedUpTo(n - 1), n)
    ELSE WellFormedUpTo(n - 1)

\* C31 (checked under SpecRdfFile): a rejected triple does not stop the
\* load: the load ends, and only when the parser is at the end of the
\* input; at every moment the three columns hold exactly the well-formed
\* triples read so far (also those after a rejected one), in input order.
C31_RejectedTripleDoesNotStopLoad ==
    /\ [](rdf_pc = "done" => rdf_read = Len(rdf_input))
    /\ <>(rdf_pc = "done")
    /\ [](/\ rdf_committed = WellFormedUpTo(rdf_read)
          /\ \A j \in 1..3 : builders[j] = rdf_committed)

\* The load has ended with a well-formed triple committed after a rejected
\* one.
C31_Witness ==
    /\ rdf_pc = "done"
    /\ Len(rdf_input) = 2
    /\ ~WellFormed(rdf_input[1])
    /\ WellFormed(rdf_input[2])
    /\ \A j \in 1..3 : builders[j] = << 2 >>

\* C38 (checked under SpecRdfOpen): once the resource is open, the parser
\* is chosen from the resource name alone: Turtle when the name ends in .ttl or .ttl.gz, RDF/XML when
\* it ends in .rdf or .rdf.gz, N-Triples for every other name; and with
\* each of the three the triples go through the same callback, which leaves
\* in the builders the committed triples and nothing of a rejected one.
C38_ParserChosenBySuffix ==
    (rdf_pc # "opening" /\ rdf_ret # "Err") =>
        LET n      == Len(rdf_resource)
            last   == rdf_resource[n]
            before == IF n >= 2 THEN rdf_resource[n - 1] ELSE ""
            ext    == IF last = ".gz" THEN before ELSE last
        IN  /\ ext = ".ttl" => rdf_parser = "Turtle"
            /\ ext = ".rdf" => rdf_parser = "RdfXml"
            /\ ext \notin {".ttl", ".rdf"} => rdf_parser = "NTriples"
            /\ \A j \in 1..3 : builders[j] = rdf_committed
            /\ \A j \in 1..3 :
                  rdf_last = << "add1", "add2", "add3" >>[j]
                     => rdf_forgets = [i \in 1..3 |-> IF i < j THEN 1 ELSE 0]

\* A compressed Turtle resource: the Turtle parser was made, a triple was
\* committed and a later one rolled back after two adds.
C38_Witness ==
    /\ EndsWith(rdf_resource, << ".ttl", ".gz" >>)
    /\ rdf_parser = "Turtle"
    /\ rdf_last = "add3"
    /\ triples = 1

\* ------------------------------------------------------------------------
\* Claims about csv read (checked under SpecCsv)
\* ------------------------------------------------------------------------
\* The 1-based columns of the declared datatypes at which a cell of the row
\* fails to parse.
FailingCells(row) ==
    { j \in 1..Len(row) :
        /\ j <= Len(datatypes)
        /\ datatypes[j] # None
        /\ ParseCell(Unwrap(datatypes[j]), row[j]) = None }

\* C8: when a record has one field per declared column and one of its
\* cells fails to parse, every result column is afterwards what it was
\* before the record.
C8_FailedRowLeavesNoCell ==
    (Len(csv_last) = Len(datatypes) /\ FailingCells(csv_last) # {}) =>
        /\ result = csv_pre
        /\ \A i \in 1..Len(result) : Len(result[i]) = Len(csv_pre[i])

\* A record whose second cell failed after its first cell had been pushed,
\* with an earlier record committed.
C8_Witness ==
    /\ Len(datatypes) = 2
    /\ Len(csv_last) = 2
    /\ FailingCells(csv_last) = {2}
    /\ Len(csv_pre[1]) = 1
    /\ result = csv_pre

\* C9: when csv read has returned, all the columns have the same length
\* (every record gave one cell to each column or none to any), also for
\* records with fewer fields than declared columns.
C9_ReturnedColumnsSameLength ==
    csv_pc = "done" =>
        \A i, j \in 1..Len(result) : Len(result[i]) = Len(result[j])

\* The same, when no record was shorter than the declared columns.
CsvSameLengthAfterFullRow ==
    (csv_pc # "panicked" /\ csv_rows = 1 /\ Len(csv_last) = Len(datatypes)) =>
        \A i, j \in 1..Len(result) : Len(result[i]) = Len(result[j])

\* C10: csv read and read_with_buf_reader return Ok for every input; a
\* rejected row or triple never decides the result of the load.
C10_LoadReturnsOk ==
    /\ csv_pc # "reading" => (csv_pc = "done" /\ csv_ret = "Ok")
    /\ rdf_pc # "reading" => (rdf_pc = "done" /\ rdf_ret = "Ok")

\* The RDF reader's part of C10, under SpecRdf.
RdfLoadReturnsOk ==
    rdf_pc # "reading" => (rdf_pc = "done" /\ rdf_ret = "Ok")

\* The text a cell of result column i (1-based) stands for: the number of
\* a typed column, the dictionary's string of an untyped one.
CellText(i, v) ==
    IF datatypes[i] # None
    THEN (IF v = 7 THEN "7" ELSE "?")
    ELSE (IF v + 1 \in 1..Len(dictionary) THEN dictionary[v + 1] ELSE "?")

\* C11: when every cell of every record parsed, csv read returns Ok with
\* one column per declared datatype, each holding one value per record, in
\* the order of the records.
C11_ParsedRowsFillColumns ==
    (csv_pc = "done" /\ csv_all_parse) =>
        /\ csv_ret = "Ok"
        /\ Len(result) = Len(datatypes)
        /\ \A i \in 1..Len(result) :
              /\ Len(result[i]) = Len(csv_hist)
              /\ \A n \in 1..Len(result[i]) :
                    CellText(i, result[i][n]) = csv_hist[n][i]

\* The same for loads whose records all have one field per declared column.
CsvFullRowsFillColumns ==
    (csv_pc = "done" /\ csv_all_parse
        /\ \A n \in 1..Len(csv_hist) : Len(csv_hist[n]) = Len(datatypes)) =>
        /\ csv_ret = "Ok"
        /\ Len(result) = Len(datatypes)
        /\ \A i \in 1..Len(result) :
              /\ Len(result[i]) = Len(csv_hist)
              /\ \A n \in 1..Len(result[i]) :
                    CellText(i, result[i][n]) = csv_hist[n][i]

\* The outcome of the cells of a record: "Ok", "RollBack" or "panic", and
\* the 0-based index of the failing cell.
RowOutcome(row) == try_for_each(datatypes, result, dictionary, row, 0)

\* C32: a rejected record leaves the result columns as they were before
\* it, but not the dictionary: the strings of its untyped cells before the
\* failing cell stay added (the dictionary keeps its earlier entries in
\* place and gains exactly those strings that are new).
C32_RollbackKeepsDictionaryEntries ==
    [][(csv_rows' = csv_rows + 1 /\ csv_last' # << >>
          /\ RowOutcome(csv_last').out = "RollBack") =>
            LET at    == RowOutcome(csv_last').at
                added == { csv_last'[j] : j \in { k \in 1..at : datatypes[k] = None } }
            IN  /\ result' = result
                /\ Len(dictionary') >= Len(dictionary)
                /\ SubSeq(dictionary', 1, Len(dictionary)) = dictionary
                /\ SeqRange(dictionary') = SeqRange(dictionary) \cup added
                /\ Len(dictionary') = Cardinality(SeqRange(dictionary'))]_vars

\* The only record so far was rejected at its second cell: no column holds
\* a value, yet the dictionary holds the string of its first cell.
C32_Witness ==
    /\ csv_rows = 1
    /\ Len(datatypes) = 2
    /\ datatypes[1] = None
    /\ FailingCells(csv_last) = {2}
    /\ \A i \in 1..Len(result) : result[i] = << >>
    /\ dictionary = << csv_last[1] >>

\* ------------------------------------------------------------------------
\* Claims about reset(), pos() and narrow() of the derived scans (checked
\* under SpecCalls)
\* ------------------------------------------------------------------------
\* C12: pos() and narrow() on OrderedMergeJoin, ColumnScanEqualColumn and
\* ColumnScanPrune, and reset() on ColumnScanPrune, abort: the call never
\* returns, so the scan and its last result stay as they were and no call
\* follows; reset() on OrderedMergeJoin and ColumnScanEqualColumn returns
\* normally; nothing else aborts.
C12_UnsupportedCallsAbort ==
    /\ (column_scans # << >> /\ omj_op \in {"pos", "narrow"})
          => /\ panicked
             /\ OmjState = call_pre.st
             /\ omj_ret = call_pre.ret
    /\ eq_op \in {"pos", "narrow"}
          => /\ panicked
             /\ EqState = call_pre.st
             /\ eq_ret = call_pre.ret
    /\ prune_op \in {"pos", "narrow", "reset"}
          => /\ panicked
             /\ prune_state = call_pre.st
             /\ prune_obs = call_pre.ret
    /\ omj_op = "reset"
          => /\ ~panicked
             /\ active_scan = 0 /\ active_max = None /\ current = None
    /\ eq_op = "reset" => (~panicked /\ current_value = None)
    /\ panicked => \/ omj_op \in {"pos", "narrow"}
                   \/ eq_op \in {"pos", "narrow"}
                   \/ prune_op \in {"pos", "narrow", "reset"}

\* reset() was called on a prune scan in the middle of the walk, with a
\* layer peeked.
C12_Witness ==
    /\ scan_kind = "prune"
    /\ prune_op = "reset"
    /\ panicked
    /\ mat_pc = "walking"
    /\ prune_state.highest_peeked_layer # None
    /\ call_pre.st = prune_state

\* C27: reset() on a join puts the join's own state back to that of a new
\* join (active scan 0, no active_max, current() None) and leaves every
\* sub-scan where it was.
C27_ResetRestoresJoinOnly ==
    (column_scans # << >> /\ omj_op = "reset") =>
        /\ OmjState = OmjNew(call_pre.st.column_scans)
        /\ omj_current(OmjState) = None
        /\ \A i \in 1..Len(column_scans) :
              column_scans[i].pos = call_pre.st.column_scans[i].pos

\* reset() on a join over three sub-scans that had emitted a value, the
\* sub-scans standing at different positions.
C27_Witness ==
    /\ omj_op = "reset"
    /\ Len(column_scans) = 3
    /\ call_pre.st.current # None
    /\ call_pre.st.active_scan # 0
    /\ current = None
    /\ \E i \in 1..3, j \in 1..3 : column_scans[i].pos > column_scans[j].pos
    /\ \A i \in 1..3 : column_scans[i].pos >= 1

\* ------------------------------------------------------------------------
\* Claims about column storage and storage scans (checked under SpecStore)
\* ------------------------------------------------------------------------
\* C15: on a dense or RLE scan over a sorted sequence, in any run of seeks
\* with non-decreasing targets each seek(t) returns the least value >= t
\* of the sequence, or None if there is none; afterwards current() equals
\* the returned value, and no call moves the scan's position backwards.
C15_SeekYieldsLeastAtOrAbove ==
    /\ StoragePosition(store_column, store_scan) >= store_pre
    /\ store_op = "seek" =>
          /\ StorageCurrent(store_column, store_scan) = store_ret
          /\ store_hist = "seeks" =>
                store_ret = LeastGE(SeqRange(store_input), store_arg)

\* A dense scan whose seek found its value strictly inside the window of
\* the probe, one position before the probe's overshoot.
C15_Witness ==
    /\ store_op = "seek"
    /\ store_hist = "seeks"
    /\ store_column.kind = "dense"
    /\ store_ret # None
    /\ store_pre >= 0
    /\ store_scan.pos = store_pre + 2
    /\ store_scan.pos + 1 < store_scan.hi

\* C16: for dense and RLE storage built from a sorted sequence S, len() is
\* the length of S and repeated next() on a fresh scan returns S, element
\* for element, and then None.
C16_DecodingYieldsInput ==
    /\ StorageLen(store_column) = Len(store_input)
    /\ store_hist \in {"fresh", "nexts"} => IsPrefix(store_out, store_input)
    /\ (store_hist = "nexts" /\ store_ret = None) => store_out = store_input

\* An RLE column of several runs, one of them with a positive increment,
\* drained to the end.
C16_Witness ==
    /\ store_column.kind = "rle"
    /\ Len(store_column.runs) >= 2
    /\ \E r \in 1..Len(store_column.runs) :
          store_column.runs[r].increment > 0 /\ store_column.runs[r].length >= 3
    /\ store_hist = "nexts"
    /\ store_ret = None
    /\ store_out = store_input

\* ------------------------------------------------------------------------
\* Claims about trie scans and materialization (checked under SpecMat,
\* SpecTrie and SpecMatFair)
\* ------------------------------------------------------------------------
\* The tuples pushed to the builders so far, in the order of the pushes.
Emitted ==
    [i \in 1..Len(mat_builders[1]) |->
        [l \in 1..trie.arity |-> mat_builders[l][i]]]

\* C17: the depth-first walk (next at the active layer; on a value, down;
\* on None, up) emits tuples of the relation in strictly increasing
\* lexicographic order, hence none twice, and all of them by its end.
C17_DrainIsStrictlyLexOrdered ==
    /\ \A l \in 1..trie.arity : Len(mat_builders[l]) = Len(mat_builders[1])
    /\ \A i \in 1..Len(Emitted) : Emitted[i] \in trie_tuples
    /\ \A i \in 1..(Len(Emitted) - 1) : LexLess(Emitted[i], Emitted[i + 1])
    /\ mat_pc = "done" => SeqRange(Emitted) = trie_tuples

\* A finished walk over the materialized trie scan of MaxTuples tuples of
\* arity two, two of them under the same first value.
C17_Witness ==
    /\ mat_pc = "done"
    /\ scan_kind = "materialized"
    /\ trie.arity = 2
    /\ Len(Emitted) = MaxTuples
    /\ \E i \in 1..(MaxTuples - 1) : Emitted[i][1] = Emitted[i + 1][1]

\* The values of layer l (1-based) below the current values of the layers
\* above it, in ascending order.
ChildValues(l) ==
    SetToSeq({ t[l] : t \in { u \in trie_tuples :
                 \A j \in 1..(l - 1) :
                    Some(u[j]) = VectorCurrent(trie.columns[j],
                                               trie_scan.scans[j]) } })

\* C18: after any calls of up/down/next/seek every scan deeper than the
\* active layer is in its reset state with current() None; right after
\* down() the new active scan is narrowed to the children of the parent's
\* current value and its current() is None; up() leaves the abandoned
\* layer's scan reset.
C18_DeeperScansAreReset ==
    /\ \A l \in (trie_scan.active + 2)..trie.arity :
          /\ trie_scan.scans[l] = VectorIter(trie.columns[l])
          /\ VectorCurrent(trie.columns[l], trie_scan.scans[l]) = None
    /\ trie_op = "down" =>
          LET l  == trie_scan.active + 1
              sc == trie_scan.scans[l]
          IN  /\ trie_scan.active = trie_pre.active + 1
              /\ VectorCurrent(trie.columns[l], sc) = None
              /\ sc.pos = sc.lo - 1
              /\ [i \in 1..(sc.hi - sc.lo) |-> trie.columns[l][sc.lo + i]]
                    = ChildValues(l)
    /\ (trie_op = "up" /\ trie_pre.active > 0) =>
          /\ trie_scan.active = trie_pre.active - 1
          /\ trie_scan.scans[trie_pre.active + 1]
                = VectorIter(trie.columns[trie_pre.active + 1])

\* An up() that left a layer whose scan was at a value, in a trie whose
\* layer has more values than the children of one parent.
C18_Witness ==
    /\ trie_op = "up"
    /\ trie_pre.active = 1
    /\ VectorCurrent(trie.columns[2], trie_pre.scans[2]) # None
    /\ trie_pre.scans[2].lo > 0
    /\ trie_scan.active = 0

\* C19: materialization terminates: the walk reaches the state where up
\* fails at the root, and by then every tuple of the trie has been pushed
\* to the builders.
C19_MaterializationTerminates ==
    <>(mat_pc = "done" /\ SeqRange(Emitted) = trie_tuples)

\* A finished walk over a prune trie scan of two layers and MaxTuples
\* tuples under different first values.
C19_Witness ==
    /\ mat_pc = "done"
    /\ scan_kind = "prune"
    /\ trie.arity = 2
    /\ Cardinality(trie_tuples) = MaxTuples
    /\ Len(mat_builders[2]) = MaxTuples
    /\ \A t1 \in trie_tuples, t2 \in trie_tuples : t1 = t2 \/ t1[1] # t2[1]

\* ------------------------------------------------------------------------
\* Claims about ColumnScanPrune and the prune trie scan (checked under
\* SpecPrune)
\* ------------------------------------------------------------------------
\* C13: current() of the prune column scan of layer l returns None when
\* the shared state reports layer l as peeked and the reference scan's
\* current() otherwise, and it leaves the shared state as it was.
C13_CurrentHidesPeekedLayer ==
    prune_op = "current" =>
        LET obs == prune_obs[1]
        IN  /\ obs.ret = IF is_column_peeked(obs.state, obs.index) THEN None
                         ELSE ReferenceCurrent(trie, trie_scan, obs.index)
            /\ prune_state = obs.state

\* current() on a peeked layer whose reference scan is at a value.
C13_Witness ==
    /\ prune_op = "current"
    /\ is_column_peeked(prune_state, prune_obs[1].index)
    /\ ReferenceCurrent(trie, trie_scan, prune_obs[1].index) # None
    /\ prune_obs[1].ret = None

\* C14: for every stored trie T the walk over the prune trie scan of
\* (scan T) pushes the same tuples in the same order as the walk over
\* (scan T) itself.
C14_PruneDrainEqualsScanDrain ==
    (scan_kind = "prune" /\ scan_drain # << >>) =>
        /\ \A l \in 1..trie.arity : IsPrefix(mat_builders[l], scan_drain[l])
        /\ \A l \in 1..trie.arity : Len(mat_builders[l]) = Len(mat_builders[1])
        /\ mat_pc = "done" => mat_builders = scan_drain

\* A finished walk over the prune scan of a trie with two layers and
\* MaxTuples tuples, two of them under the same first value.
C14_Witness ==
    /\ scan_kind = "prune"
    /\ mat_pc = "done"
    /\ trie.arity = 2
    /\ Len(mat_builders[1]) = MaxTuples
    /\ \E i \in 1..(MaxTuples - 1) : mat_builders[1][i] = mat_builders[1][i + 1]

\* ------------------------------------------------------------------------
\* Claims about ColumnScanPrune over inputs with dead prefixes (checked
\* under SpecDead)
\* ------------------------------------------------------------------------
\* The values of layer l (0-based) below the prefix that have a completion
\* down to a leaf.
LiveValues(prefix, l) ==
    { t[l + 1] : t \in { u \in trie_tuples : SubSeq(u, 1, l) = prefix } }

\* C30: a value returned by next() or seek() of the prune column scan of
\* layer l is a value of the input's layer l under the current prefix that
\* has a completion down to a leaf; None is returned only when no value
\* with a completion remains in the layer (for seek: none at or above the
\* minimum); and seek(m) returns no value below m.
C30_PruneYieldsLiveValues ==
    (prune_op \in {"next", "seek"} /\ prune_obs # << >>) =>
        LET o      == prune_obs[1]
            l      == o.index
            prefix == [k \in 1..l |-> Unwrap(ReferenceCurrent(trie, o.ts, k - 1))]
            live   == LiveValues(prefix, l)
            sc     == o.ts.scans[l + 1]
            cur    == ReferenceCurrent(trie, o.ts, l)
            unproduced == is_column_peeked(o.state, l)
            remaining ==
                IF sc.pos >= sc.hi THEN {}
                ELSE { v \in live :
                         /\ cur # None =>
                               IF unproduced \/ prune_op = "seek"
                               THEN v >= Unwrap(cur) ELSE v > Unwrap(cur)
                         /\ prune_op = "seek" => v >= o.arg }
        IN  /\ o.ret # None => Unwrap(o.ret) \in live
            /\ o.ret # None => Unwrap(o.ret) \in remaining
            /\ o.ret = None => remaining = {}
            /\ (prune_op = "seek" /\ o.ret # None) => Unwrap(o.ret) >= o.arg

\* A seek on layer 0 of a binary input passed over a value without a
\* completion that was at or above the minimum.
C30_Witness ==
    /\ prune_op = "seek"
    /\ prune_obs # << >>
    /\ trie.arity = 2
    /\ prune_obs[1].index = 0
    /\ prune_obs[1].ret # None
    /\ \E d \in SeqRange(trie.columns[1]) :
          /\ d >= prune_obs[1].arg
          /\ d < Unwrap(prune_obs[1].ret)
          /\ \A t \in trie_tuples : t[1] # d

\* ------------------------------------------------------------------------
\* Claims about the logical data model (checked under SpecRule)
\* ------------------------------------------------------------------------
\* Some term of the atom is the variable v with the given quantifier.
Occurs(tag, v, a) ==
    \E i \in 1..Len(a.terms) : a.terms[i] = [tag |-> tag, id |-> v]

\* C33: Rule::new_validated returns Ok(the rule of the given head and body)
\* exactly when no body literal holds an existential variable, every
\* universal variable of a negative body literal is in some positive body
\* literal, and no variable is existential in the head and universal in the
\* head or the body; otherwise the first of these conditions that fails
\* decides between BodyExistential, UnsafeNegatedVariable and
\* BothQuantifiers.
C33_RuleValidationOutcome ==
    rule_ret # << >> =>
        LET ret  == rule_ret[1]
            body == { rule_body[i] : i \in 1..Len(rule_body) }
            head == { rule_head[i] : i \in 1..Len(rule_head) }
            no_body_existential ==
                \A l \in body : \A v \in Identifiers :
                    ~Occurs("ExistentialVariable", v, l.atom)
            negation_safe ==
                \A l \in body : \A v \in Identifiers :
                    (l.tag = "Negative" /\ Occurs("Variable", v, l.atom)) =>
                        \E p \in body :
                            p.tag = "Positive" /\ Occurs("Variable", v, p.atom)
            one_quantifier ==
                \A v \in Identifiers :
                    (\E a \in head : Occurs("ExistentialVariable", v, a)) =>
                        /\ \A a \in head : ~Occurs("Variable", v, a)
                        /\ \A l \in body : ~Occurs("Variable", v, l.atom)
        IN  /\ ret.tag = "Ok" <=>
                  (no_body_existential /\ negation_safe /\ one_quantifier)
            /\ ret.tag = "Ok" =>
                  ret.rule = [head |-> rule_head, body |-> rule_body]
            /\ ~no_body_existential => ret.tag = "BodyExistential"
            /\ (no_body_existential /\ ~negation_safe) =>
                  ret.tag = "UnsafeNegatedVariable"
            /\ (no_body_existential /\ negation_safe /\ ~one_quantifier) =>
                  ret.tag = "BothQuantifiers"

\* A rule that fails the first and the third condition was rejected for
\* the first.
C33_Witness ==
    /\ rule_ret # << >>
    /\ rule_ret[1].tag = "BodyExistential"
    /\ \E i \in 1..Len(rule_head) : \E j \in 1..Len(rule_body) :
          /\ Occurs("ExistentialVariable", "x", rule_head[i])
          /\ Occurs("Variable", "x", rule_body[j].atom)

\* C35 (checked under SpecLit): negating a literal twice gives the literal
\* back; negating it once keeps its atom and makes it positive exactly when
\* it was negative; and every literal is either positive or negative, never
\* both.
C35_NegationIsInvolution ==
    /\ lit_negs = 2 => lit_cur = lit_input
    /\ lit_negs = 1 =>
          /\ atom(lit_cur) = atom(lit_input)
          /\ is_positive(lit_cur) = is_negative(lit_input)
    /\ is_positive(lit_cur) # is_negative(lit_cur)

\* A positive literal with two terms has been negated twice.
C35_Witness ==
    /\ lit_negs = 2
    /\ is_positive(lit_input)
    /\ Len(atom(lit_input).terms) = 2

\* The commas of a text.
Commas(s) == Cardinality({ i \in 1..Len(s) : s[i] = "," })

\* C34 (checked under SpecSource): a CSV source is accepted with any arity;
\* an RDF file source is accepted exactly when the declared arity is 3 and
\* is otherwise rejected with RdfSourceInvalidArity; a SPARQL source is
\* accepted exactly when its projection has as many comma-separated pieces
\* as the declared arity and is otherwise rejected with
\* SparqlSourceInvalidArity; and the RDF reader goes on past its assertion
\* exactly when it has three builders.
C34_SourceArityValidation ==
    /\ src_ret # << >> =>
          LET ret == src_ret[1]
              accepted == /\ ret.tag = "Ok"
                          /\ ret.arity = src_arity
                          /\ ret.source = src_source
          IN  /\ src_source.kind = "CsvFile" => accepted
              /\ src_source.kind = "RdfFile" =>
                    IF src_arity = 3 THEN accepted
                    ELSE ret.tag = "RdfSourceInvalidArity"
              /\ src_source.kind = "SparqlQuery" =>
                    IF Commas(src_source.projection) + 1 = src_arity THEN accepted
                    ELSE ret.tag = "SparqlSourceInvalidArity"
    /\ rdr_pc = "reading" =>
          (rdr_proxies >= 3 /\ rdr_types >= 3 /\ (rdr_proxies = 3 \/ rdr_types = 3))
    /\ rdr_pc = "panicked" =>
          ~(rdr_proxies >= 3 /\ rdr_types >= 3 /\ (rdr_proxies = 3 \/ rdr_types = 3))

\* A SPARQL source with a projection of three variables was accepted with
\* arity 3, and a reader with three builders went on.
C34_Witness ==
    /\ src_ret # << >>
    /\ src_ret[1].tag = "Ok"
    /\ src_source.kind = "SparqlQuery"
    /\ src_arity = 3
    /\ Commas(src_source.projection) = 2
    /\ rdr_pc = "reading"
    /\ rdr_proxies = 3
    /\ rdr_types = 3

\* ------------------------------------------------------------------------
\* Claims about RuleParser (checked under SpecParser)
\* ------------------------------------------------------------------------
\* The positions in the parsed directives of those of a keyword and prefix.
DirectivesOf(keyword, prefix) ==
    { i \in 1..Len(parser_parsed) :
        /\ parser_parsed[i].keyword = keyword
        /\ parser_parsed[i].prefix = prefix }

\* The IRI of the most recent of them, if any.
MostRecentIri(keyword, prefix) ==
    IF DirectivesOf(keyword, prefix) = {} THEN None
    ELSE Some(parser_parsed[CHOOSE i \in DirectivesOf(keyword, prefix) :
                               \A j \in DirectivesOf(keyword, prefix) : j <= i].iri)

\* C36: base() is the IRI of the most recent @base directive parsed with
\* success and resolve_prefix(p) the IRI of the most recent @prefix
\* directive for p parsed with success, both None while there is none; and
\* a parser call that fails leaves the base and the prefixes as they were.
C36_DirectivesSetBaseAndPrefixes ==
    /\ [](/\ parser_base(base) = MostRecentIri("@base", "")
          /\ \A p \in PrefixNames \cup {""} :
                resolve_prefix(prefixes, p) =
                    IF p = "" THEN None ELSE MostRecentIri("@prefix", p))
    /\ [][parser_last' = "failed" => (base' = base /\ prefixes' = prefixes)]_vars

\* After a base and two declarations of the same prefix, the later IRI is
\* the one resolved, and a directive has then failed to parse.
C36_Witness ==
    /\ parser_last = "failed"
    /\ Len(parser_parsed) = 3
    /\ parser_parsed[1].keyword = "@base"
    /\ parser_parsed[2].keyword = "@prefix"
    /\ parser_parsed[3].keyword = "@prefix"
    /\ parser_parsed[2].prefix = parser_parsed[3].prefix
    /\ parser_parsed[2].iri # parser_parsed[3].iri
    /\ base = Some(parser_parsed[1].iri)
    /\ resolve_prefix(prefixes, parser_parsed[3].prefix) = Some(parser_parsed[3].iri)

====
